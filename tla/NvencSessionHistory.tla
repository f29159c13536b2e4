------------------------ MODULE NvencSessionHistory ------------------------
(***************************************************************************)
(* NvencSession with a history variable: the frames the session holds, in  *)
(* the order it accepted them.  It states what session.rs says about the   *)
(* order of outputs, which no variable of the code remembers.              *)
(***************************************************************************)
EXTENDS NvencSession

VARIABLE outstanding  \* accepted frames not yet returned or lost, oldest first

historyVars == <<vars, outstanding>>

\* Frames leave as soon as the session no longer holds them; the frame a step
\* accepts (at most one) comes last.
RecordOrder ==
    outstanding' = SelectSeq(outstanding, LAMBDA f : f \in Held') \o SetToSeq(Held' \ Held)

HistoryInit == Init /\ outstanding = <<>>
HistoryNext == Next /\ RecordOrder
HistorySpec == HistoryInit /\ [][HistoryNext]_historyVars

\* "a client always sees output in submission order even if NVENC buffered N
\* earlier frames" (the comment on `pending_outputs`).
OutputInSubmissionOrder ==
    [][pending_outputs # <<>> /\ ret'.kind = "bytes" /\ ret # ret'
         => ret'.frame = outstanding[1]]_historyVars
===========================================================================
