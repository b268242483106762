------------------------------- MODULE MCFc2 -------------------------------
(* Instance of Fc2 for model checking.                                     *)
EXTENDS Fc2

\* A body with a message of another request in it, a request that is aborted,
\* and one that does not begin with BEGIN_REQUEST.
MCScripts ==
  {<<Msg("begin", 1, 0), Msg("params", 1, 1), Msg("params", 1, 0), Msg("stdin", 1, 1),
     Msg("stdin", 2, 7), Msg("stdin", 1, 2), Msg("stdin", 1, 0)>>,
   <<Msg("begin", 1, 0), Msg("params", 2, 0), Msg("params", 1, 0), Msg("abort", 1, 0)>>,
   <<Msg("params", 1, 1)>>}
====
