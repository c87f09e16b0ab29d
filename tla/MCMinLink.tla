----------------------------- MODULE MCMinLink -----------------------------
EXTENDS MinLink

\* A frame without payload, one whose header byte may be the last that gets
\* through, and one that must be stuffed.
MCFrames ==
  { [id |-> 10, control |-> 0, payload |-> << >>],
    [id |-> 14, control |-> 1, payload |-> <<HEADER_BYTE>>],
    [id |-> 14, control |-> 2, payload |-> <<HEADER_BYTE, HEADER_BYTE>>] }
=============================================================================
