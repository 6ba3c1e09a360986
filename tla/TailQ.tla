------------------------------- MODULE TailQ --------------------------------
(* The lists of sys/queue.h as sequences: what the macros do to the order   *)
(* of the entries.                                                          *)
EXTENDS Integers, Sequences, Functions

\* TAILQ_LAST, of a list that is not empty.
Last(q) == q[Len(q)]

\* TAILQ_INSERT_HEAD and TAILQ_INSERT_AFTER: f becomes the i-th entry.
InsertAt(q, i, f) == SubSeq(q, 1, i - 1) \o <<f>> \o SubSeq(q, i, Len(q))

\* TAILQ_REMOVE of the i-th entry.
RemoveAt(q, i) == SubSeq(q, 1, i - 1) \o SubSeq(q, i + 1, Len(q))

=============================================================================
