------------------------------ MODULE HttpGet -------------------------------
(***************************************************************************)
(* src/src/http_get.c: one document fetched over any redirects into memory.*)
(* A status line, a piece of body handed to mem_write and the end of the   *)
(* transfer are steps.  A piece stands for any number of bytes and is a    *)
(* record [of, n, as]: part n of what is served under the address of, or a *)
(* page in its place.                                                      *)
(***************************************************************************)
EXTENDS Integers, Sequences

CONSTANTS GET_MAXREDIRS,    \* CURLOPT_MAXREDIRS
          Documents(_)      \* what may be served for an address

ASSUME GetAssumption == GET_MAXREDIRS \in Nat

VARIABLES
    get,        \* the call, its MemBuf and its result
    getSent,    \* what the response now arriving has carried
    getLeft     \* what it has still to carry

getVars == <<get, getSent, getLeft>>

Page == <<[of |-> "page", n |-> 1, as |-> "plain"]>>

NoGet == [at |-> "idle", url |-> "", max |-> 0, body |-> <<>>, too_large |-> FALSE,
          oom |-> FALSE, hops |-> 0, status |-> 0, ok |-> FALSE]

GetStart(url, max) ==
    get' = [NoGet EXCEPT !.at = "perform", !.url = url, !.max = max]

\* Without a CA bundle or a curl handle there is no transfer.
GetCannot == get.at = "perform" /\ get.hops = 0 /\ get' = [get EXCEPT !.at = "done"]
             /\ UNCHANGED <<getSent, getLeft>>

\* Faulty variant: the body of a redirect stays in front of the document.
RedirectKept(body) == body

\* "we only want the final one"
StartsOver(body) == <<>>

\* header_cb sees the status line of a redirect, of a document or of an error.
GetStatus ==
    /\ get.at = "perform"
    /\ \E status \in {200, 302, 404} :
         /\ status = 302 => get.hops < GET_MAXREDIRS
         /\ getLeft' \in IF status = 200 THEN Documents(get.url) ELSE {<<>>, Page}
         /\ get' = [get EXCEPT !.at = "body", !.status = status, !.hops = @ + 1,
                               !.body = StartsOver(@)]
    /\ getSent' = <<>>

\* mem_write takes all it is handed or fails the transfer.
GetPiece ==
    /\ get.at = "body"
    /\ \E n \in DOMAIN getLeft :
         /\ getSent' = getSent \o SubSeq(getLeft, 1, n)
         /\ getLeft' = SubSeq(getLeft, n + 1, Len(getLeft))
         /\ IF Len(get.body) + n > get.max
            THEN get' = [get EXCEPT !.too_large = TRUE, !.at = "failed"]
            ELSE \/ get' = [get EXCEPT !.body = @ \o SubSeq(getLeft, 1, n)]
                 \/ get' = [get EXCEPT !.oom = TRUE, !.at = "failed"]

\* The document is complete, or the transfer breaks off, or its time is up.
GetEnds ==
    /\ get.at = "body"
    /\ \/ /\ getLeft = <<>>
          /\ get' = [get EXCEPT !.at = IF get.status = 302 THEN "perform" ELSE "over"]
       \/ get' = [get EXCEPT !.at = "failed"]
    /\ UNCHANGED <<getSent, getLeft>>

\* The first thing that went wrong is the result; memory for the effective address
\* may be missing too.
GetConcludes ==
    /\ get.at \in {"over", "failed"}
    /\ \E no_memory \in BOOLEAN :
         get' = [get EXCEPT !.at = "done",
                            !.ok = /\ ~get.too_large /\ ~get.oom /\ get.at = "over"
                                   /\ get.status \in 200..299 /\ get.body # <<>>
                                   /\ ~no_memory]
    /\ UNCHANGED <<getSent, getLeft>>

GetStep == GetCannot \/ GetStatus \/ GetPiece \/ GetEnds \/ GetConcludes

\* http_doc_free, or the call's own cleanup.
GetFree == get' = NoGet /\ getSent' = <<>> /\ getLeft' = <<>>

GetTypeOk == Len(get.body) <= get.max /\ get.hops \in 0..(GET_MAXREDIRS + 1)

=============================================================================
