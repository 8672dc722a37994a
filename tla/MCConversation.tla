--------------------------- MODULE MCConversation ---------------------------
(* Model-checking instances of Conversation. *)
EXTENDS Conversation, TLC

\* Command goroutines differ only in name.
CmdSymmetry == Permutations(Cmds)

\* The races do not look at what the backend stored or deleted, which exchanges
\* a rewind took back, or which exchange anything continues from; no guard does
\* either.  Nor does anything else read what a run that is over held, or what a
\* command has read for a step it has taken.
RunSeen(r) ==
  IF run[r].pc \in {"done", "dead"}
  THEN [run[r] EXCEPT !.held = 0, !.from = 0, !.stop = FALSE]
  ELSE [run[r] EXCEPT !.from = 0]

JobSeen(c) ==
  [job[c] EXCEPT
     !.s = IF job[c].at \in {"undo redact", "resume reopen"} THEN 0 ELSE @,
     !.row = [@ EXCEPT !.parent = 0, !.at = 0]]

RacesView ==
  <<[r \in Run |-> RunSeen(r)], reg,
    [s \in Run |-> [sess[s] EXCEPT !.tip = 0]],
    [q \in Run |-> [row[q] EXCEPT !.parent = 0]], clock, compact, room,
    [c \in Cmds |-> JobSeen(c)], deleted, cut, crashes>>

\* The sequences look at what the tables and the backend hold.  Nothing reads
\* which answers the room still shows, or which conversations were seeded.
SequencesView ==
  <<run, reg, sess, row, clock, compact, branch, removed, job, deleted,
    rewound, crashes>>
=============================================================================
