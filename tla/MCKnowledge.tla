---------------------------- MODULE MCKnowledge ----------------------------
(***************************************************************************)
(* Small instances of AskThread: with a fallback provider for the index,   *)
(* without one for the conversation.                                       *)
(***************************************************************************)
EXTENDS AskThread

CONSTANTS preferred, fallback \* embedding spaces

\* A profile with a fallback, then one that keeps the fallback only.
MCFallbackThenOther == << <<preferred, fallback>>, <<fallback>> >>

\* Two profiles of one candidate each.
MCOneThenOther == << <<preferred>>, <<fallback>> >>
=============================================================================
