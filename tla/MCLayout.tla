------------------------------ MODULE MCLayout ------------------------------
(***************************************************************************)
(* Layout with the code's own numbers, but for a size_t of 22 bits.        *)
(***************************************************************************)
EXTENDS Layout

MCThresholds == <<256, 1024, 4096>>
MCAlignments == <<16, 64, 256>>

MCLargeBinSizes ==
  {1024 * k : k \in {8, 12, 16, 24, 32, 48, 64, 96, 128, 192, 256, 384, 512,
                     768, 1024, 2048}}

\* Sizes at the edges of parts of the class table, of the threshold, of the
\* first span class, of the last, and of the overflow check.
MCRequest ==
  [kind : {"arena"}, size : {17, 256, 1025}, alignment : {16}]
  \cup [kind : {"arena"}, size : {0, 4096}, alignment : {1, 16}]
  \cup [kind : {"arena"}, size : {4097, 8153, 2097113, 4194263},
        alignment : {8}]
  \cup [kind : {"arena"}, size : {1, 4128705}, alignment : {65536}]
  \cup [kind : {"simple"}, size : {0, 4073, 4190185, 4194279}, alignment : {1}]
  \cup [kind : {"simple"}, size : {8000}, alignment : {8192}]
  \cup [kind : {"simple"}, size : {4128720}, alignment : {65536}]
=============================================================================
