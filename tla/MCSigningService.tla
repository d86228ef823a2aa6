--------------------------- MODULE MCSigningService ---------------------------
(***************************************************************************)
(* Instances of SigningService: one request of each kind the handler tells *)
(* apart; the environment as deployed, and with each switch set.           *)
(***************************************************************************)
EXTENDS SigningService, TLC

CONSTANTS c1, c2

Calls == {c1, c2}
CallSymmetry == Permutations(Calls)

Plain ==
  [spiffe |-> "TradingApi", header |-> "Unknown", format |-> TRUE, policy |-> TRUE,
   key_id |-> "platform_admin", hash |-> NoHash]

Requests ==
  {Plain,
   [Plain EXCEPT !.hash = 0],
   [Plain EXCEPT !.key_id = "", !.hash = 0],
   [Plain EXCEPT !.key_id = "other"],
   [Plain EXCEPT !.policy = FALSE],
   [Plain EXCEPT !.format = FALSE],
   [Plain EXCEPT !.spiffe = "ReportingService"],
   [Plain EXCEPT !.spiffe = "none", !.header = "IamService"]}

Deployed == [insecure |-> FALSE, header_auth |-> FALSE, presign_disable |-> FALSE]

Envs ==
  {Deployed, [Deployed EXCEPT !.insecure = TRUE], [Deployed EXCEPT !.header_auth = TRUE],
   [Deployed EXCEPT !.presign_disable = TRUE]}

=============================================================================
