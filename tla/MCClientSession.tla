--------------------------- MODULE MCClientSession ---------------------------
(* Instances of ClientSession for TLC.                                     *)
EXTENDS ClientSession, TLC

\* The child of a request is not looked at here.
OfEach(cmds) == {r \in [cmd : cmds, id : Ids, pw : Pws, child : Ids] : r.child = r.id}

\* Commands without an id or a password: one request stands for all.
OfOne(cmds, ids, pw) == {r \in OfEach(cmds) : r.id \in ids /\ r.pw = pw}

AnId == CHOOSE i \in Ids : i # GluedId
APw == CHOOSE p \in Pws : p # GluedPw

ClientRequests ==
    OfEach({"LOGIN", "REGISTER_GENERAL", "UPDATE"})
      \cup OfOne({"DELETE"}, Ids, APw)
      \cup OfOne({"GET_MEAL", "GET_MULTI_MEAL", "INVALID"}, {AnId}, APw)

ClientSymmetry == Permutations(Handlers)
=============================================================================
