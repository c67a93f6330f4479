---------------------------- MODULE GatewayAccess ----------------------------
(***************************************************************************)
(* What an administrator is promised about MCP gateway tokens               *)
(* (app/services/mcp_gateway_tokens.py, docs/MCP.md): the tokens on record  *)
(* are the ones the MCP server accepts.  After a change the server may      *)
(* accept nothing for a moment, and then accepts what is on record.         *)
(***************************************************************************)
CONSTANT Tokens

VARIABLES
  promised,   \* tokens the administrator sees as active
  accepted    \* tokens the MCP server would let in

accessVars == <<promised, accepted>>

AccessInit == promised = {} /\ accepted = {}

(* Generating or withdrawing one token, once the last change is through. *)
Change ==
  /\ accepted = promised
  /\ \E t \in Tokens : promised' \in {promised \cup {t}, promised \ {t}}
  /\ UNCHANGED accepted

Blank == accepted' = {} /\ UNCHANGED promised

CatchUp == accepted' = promised /\ UNCHANGED promised

AccessNext == Change \/ Blank \/ CatchUp

AccessSpec == AccessInit /\ [][AccessNext]_accessVars
=============================================================================
