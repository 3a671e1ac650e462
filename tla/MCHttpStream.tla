---------------------------- MODULE MCHttpStream ----------------------------
EXTENDS HttpStream

\* A title that fits, the same one in another block, one that is too long and
\* would be cut inside a character, and one that runs into the padding.
SomeBlocks ==
    { <<KEY, 1, END, NUL, NUL>>, <<KEY, 1, END, END, NUL>>,
      <<KEY, 2, 3, CONT, END>>, <<KEY, 2, NUL, END, NUL>> }
=============================================================================
