--------------------------- MODULE MCRequestServer ---------------------------
(* Instances of RequestServer for TLC.                                     *)
EXTENDS RequestServer, TLC

\* The child of a request that has none is its own id, so that the sets below
\* treat all ids alike.
NoChild(cmds) == {r \in [cmd : cmds, id : Ids, pw : Pws, child : Ids] : r.child = r.id}

\* Registration, login, change and deletion of accounts.
AccountRequests == NoChild({"LOGIN", "REGISTER_GENERAL", "UPDATE", "DELETE"})

\* Child links between accounts that come and go, and the requests on meals.
LinkRequests ==
    NoChild({"REGISTER_GENERAL", "UPDATE", "DELETE", "GET_CHILDREN", "GET_MEAL", "GET_MULTI_MEAL",
             "INVALID"})
      \cup [cmd : {"ADD_CHILD", "DEL_CHILD", "CHILD_MEAL", "CHILD_MULTI_MEAL"},
            id : Ids, pw : Pws, child : Ids]

\* Everything, logins included, for the run in which statements fail.
FaultRequests == LinkRequests \cup AccountRequests

\* Values are only compared.  Places are not all alike where some are cached.
AccountSymmetry ==
    Permutations(Handlers) \cup Permutations(Ids) \cup Permutations(Pws) \cup Permutations(Places)

LinkSymmetry == Permutations(Handlers) \cup Permutations(Ids)
=============================================================================
