------------------------------- MODULE MCHub -------------------------------
(***************************************************************************)
(* Instances of the hub for TLC.  A behaviour is one of one hub, chosen by *)
(* `focus`: the hub of the .cfg, whose subscription joins a log that is    *)
(* being written, or the hub Rings below, where subscriptions with a full  *)
(* ring and with a compacting one come and go during fan-outs.             *)
(***************************************************************************)
EXTENDS Hub, Focus

CONSTANTS d1, d2, m1, v, s1, s2, p1, t1, t2, k1, Focuses

MCTopic == [e \in Event |-> IF e = d2 THEN t2 ELSE t1]
MCKey   == [e \in Event |-> IF e \in {d1, d2} THEN k1 ELSE NoKey]

AllRows   == [s \in Sub |-> Durable]
FromZero  == [s \in Sub |-> 0]
CapBig    == [s \in Sub |-> 8]
Once      == [e \in Event |-> 1]
FirstTwice == [e \in Event |-> IF e = d1 THEN 2 ELSE 1]

VARIABLES r_log, r_max_offset, r_subs, r_chan, r_w, r_fan, r_pub, r_sub, r_ceiling, r_rows,
          r_ring, r_alive, r_permit, r_expired, r_sent, r_faults, r_resolved, r_got, r_head, r_unread

RingEvent == {m1, d2, v}
Rings == INSTANCE Hub WITH
  Event <- RingEvent, Durable <- {d2}, Mortal <- {}, Blocked <- {}, Violation <- v,
  Topic <- [e \in RingEvent |-> IF e = d2 THEN t2 ELSE t1],
  Key <- [e \in RingEvent |-> IF e = d2 THEN k1 ELSE NoKey],
  Pub <- {p1}, Sub <- {s1, s2}, Wants <- [s \in {s1, s2} |-> RingEvent],
  Since <- [s \in {s1, s2} |-> NoSince], Latest <- {s2}, Cap <- [s \in {s1, s2} |-> 1],
  BATCH_MAX <- 2, REPLAY_MAX <- 8, MaxFault <- 0,
  MaxPublish <- [e \in RingEvent |-> IF e = m1 THEN 2 ELSE 1],
  log <- r_log, max_offset <- r_max_offset, subs <- r_subs, chan <- r_chan, w <- r_w,
  fan <- r_fan, pub <- r_pub, sub <- r_sub, ceiling <- r_ceiling, rows <- r_rows,
  ring <- r_ring, alive <- r_alive, permit <- r_permit, expired <- r_expired, sent <- r_sent,
  faults <- r_faults, resolved <- r_resolved, got <- r_got, head <- r_head,
  unread <- r_unread

ringsVars == <<r_log, r_max_offset, r_subs, r_chan, r_w, r_fan, r_pub, r_sub, r_ceiling, r_rows,
               r_ring, r_alive, r_permit, r_expired, r_sent, r_faults, r_resolved, r_got, r_head,
               r_unread>>

---------------------------------------------------------------------------
MCInit == focus \in Focuses /\ Init /\ Rings!Init

MCNext ==
  /\ UNCHANGED focus
  /\ \/ focus = "log" /\ Next /\ UNCHANGED ringsVars
     \/ focus = "rings" /\ Rings!Next /\ UNCHANGED vars

MCSpec == MCInit /\ [][MCNext]_<<focus, vars, ringsVars>>

\* RegisteredStays and RingIsBounded of both hubs: neither prune nor subscribe
\* loses an open subscription (Hub::prune, Hub::subscribe), and a ring keeps to
\* its capacity or to one envelope per key (Ring::push); all state is typed.
RingsAreKept ==
  /\ TypeOK /\ Rings!TypeOK
  /\ RegisteredStays /\ RingIsBounded
  /\ Rings!RegisteredStays /\ Rings!RingIsBounded
=============================================================================
