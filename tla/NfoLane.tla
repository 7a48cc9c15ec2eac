------------------------------ MODULE NfoLane ------------------------------
(***************************************************************************)
(* What the NFO write lane promises, without the reference counter that    *)
(* implements it (server/scrape.go claimNFO and releaseNFO): the lane has  *)
(* an owner exactly while somebody holds it, every holder holds it under   *)
(* the owner's name, and a name in Exclusive is held once at most.         *)
(* Maintenance implements this specification.                              *)
(***************************************************************************)
CONSTANTS Jobs,      \* goroutines that may hold the lane
          Lanes,     \* the names it is held under
          Exclusive, \* names that admit one holder
          Free       \* the owner of a lane nobody holds, which is no name

VARIABLES owner, holders

laneVars == <<owner, holders>>

LaneInit == owner = Free /\ holders = {}

\* A claim succeeds on a free lane, and joins a shared one under its own name.
Claim(j, lane) ==
  /\ j \notin holders
  /\ owner \in {Free, lane}
  /\ lane \in Exclusive => holders = {}
  /\ holders' = holders \cup {j}
  /\ owner' = lane

\* The last holder out frees the lane; an earlier one leaves it to the rest.
Release(j) ==
  /\ j \in holders
  /\ holders' = holders \ {j}
  /\ owner' = IF holders' = {} THEN Free ELSE owner

LaneNext == \E j \in Jobs : Release(j) \/ \E lane \in Lanes : Claim(j, lane)

LaneSpec == LaneInit /\ [][LaneNext]_laneVars
=============================================================================
