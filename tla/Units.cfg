SPECIFICATION Spec
CONSTANTS
  PKT = 3
  PES_HDR = 2
  CC_MOD = 4
  RESYNC_MAX = 8
  Broadcast <- Sent
  Arrivals <- TsArrivals
  Chunks = {1, 12}
  ADTS_HDR = 2
  ADTS_LOOK = 3
  SCAN_CAP = 8
  ID3_MAX = 12
  Streams <- AdtsStreams
  Pieces = {1, 5, 16}
  SEQ_MAX = 5
  Playlist <- ShortPlaylist
  Lines <- AllLines
  Urls = {"a", "b"}
  NoUrl = ""
  Queries = {"query"}
  Chips <- AllChips
  Directory <- Answers
  LIMIT = 2
  MIRRORS = 3
  Presses <- Pads
  SegmentsServed <- SomeSegments
  SEGMENT_MAX = 2
  KEY_BYTES = 2
  KEY_CAP = 3
  KEY_CACHE_SLOTS = 2
  GET_MAXREDIRS = 1
  Documents <- KeyDocuments
INVARIANTS UnitsTypeOk AudioIsPlayable FramesAreWhole PublishedAsServed ScreenIsTrue EveryMirrorOnce SegmentAsServed
