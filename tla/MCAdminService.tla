--------------------------- MODULE MCAdminService ---------------------------
(* Small instances of AdminService for TLC. *)
EXTENDS AdminService, Sequences, TLC

CONSTANTS t1, t2, a1, a2, h1, h2, s1, s2

Entry(id, account, ps, disabled) ==
  [id |-> id, account |-> account, proxies |-> ps, disabled |-> disabled]

MCStarts == {<<>>, <<Entry(1, a1, {1}, FALSE)>>, <<Entry(1, a1, {1}, TRUE)>>,
             <<Entry(1, a1, {}, TRUE), Entry(2, a2, {}, FALSE)>>}
MCModes == {"priority", "balanced"}
MCAskedModes == MCModes \cup {"random"}
Symmetry == Permutations({t1, t2}) \cup Permutations({s1, s2}) \cup Permutations({h1, h2})
=============================================================================
