----------------------------- MODULE MCSeekPool -----------------------------
(***************************************************************************)
(* Two scenarios over one pool of three agents. In "games" all of them     *)
(* stay connected, with a seek each, while games are made and end; in      *)
(* "presence" one agent with two standing seeks comes and goes, and the    *)
(* process restarts. DIDs and seek ids are ordered numbers, so there is no *)
(* symmetry to use.                                                        *)
(***************************************************************************)
EXTENDS SeekPool

VARIABLE scenario

\* BOUND: one instant, nobody hangs up, and the agents seek in this order or the opposite.
Games ==
  /\ scenario = "games"
  /\ now' = 0 /\ restarts' = 0 /\ open' = open
  /\ \E order \in {[s \in Seeks |-> s], [s \in Seeks |-> Cardinality(Seeks) + 1 - s]} :
       \A s \in Seeks : seeks'[s] # Null => seeks'[s].did = order[s]

\* BOUND: the other agents do nothing.
Presence ==
  /\ scenario = "presence"
  /\ \A s \in Seeks : seeks'[s] # Null =>
       s <= 2 /\ seeks'[s].did = 1 /\ seeks'[s].mode = "standing"
  /\ \A d \in Dids \ {1} : open'[d] = open[d] \/ restarts' > restarts

MCInit ==
  /\ Init
  /\ \/ scenario = "games" /\ \A d \in Dids : open[d] > 0
     \/ scenario = "presence" /\ \A d \in Dids \ {1} : open[d] = 0

MCNext == Next /\ (Games \/ Presence) /\ UNCHANGED scenario

MCSpec ==
  /\ MCInit /\ [][MCNext]_<<vars, scenario>>
  /\ WF_vars(scenario = "presence" /\ Pass) /\ WF_vars(scenario = "presence" /\ Tick)
=============================================================================
