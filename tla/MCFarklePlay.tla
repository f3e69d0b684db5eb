---------------------------- MODULE MCFarklePlay -----------------------------
(***************************************************************************)
(* Small plays for TLC.                                                    *)
(***************************************************************************)
EXTENDS FarklePlay

\* Requests that end turns.
FewRequests == {Touch(d, TRUE) : d \in DiceID} \cup {Plain("end")}

\* And those that go on with them.
MoreRequests == FewRequests \cup {Plain("roll")}
==============================================================================
