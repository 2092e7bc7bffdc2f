--------------------------- MODULE MCSecureAccess ---------------------------
(***************************************************************************)
(* Keys under different access controls for model checking SecureAccess.   *)
(***************************************************************************)
EXTENDS SecureAccess, SequencesExt

Base == [types |-> {"pin", "face"}, access |-> {"password"}, challenge |-> "normal",
         secureSign |-> FALSE, purposes |-> {"sign", "verify"}, batch |-> {"sign"},
         coauth |-> FALSE, device |-> FALSE]

SomePolicies ==
    { [Base EXCEPT !.secureSign = TRUE, !.purposes = {"sign"}, !.batch = {"verify"}],
      [Base EXCEPT !.access = {"password", "bio"}, !.challenge = "custom", !.coauth = TRUE],
      [Base EXCEPT !.access = {}, !.challenge = "none", !.coauth = TRUE, !.device = TRUE] }

SomeShapes ==
    { [user |-> 1, type |-> "pin", kind |-> "local"],
      [user |-> 2, type |-> "face", kind |-> "coauth"] }

\* TLC goes on from the states with two uses, two changes, or one of each.
FewSteps == FoldSeq(LAMBDA d, n : n + d.uses, 0, done) + Len(changes) <= 2
=============================================================================
