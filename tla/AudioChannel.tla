----------------------------- MODULE AudioChannel -----------------------------
(***************************************************************************)
(* What the ring between the companion and CoreAudio promises: what is put   *)
(* in comes out once, in order, unless it is flushed; nothing comes out      *)
(* that was not put in.  The frames in the channel are those of the places   *)
(* first .. last - 1 of the recording.                                       *)
(***************************************************************************)
EXTENDS Naturals

VARIABLES
  first, last,    (* the places that are in the channel                     *)
  held,           (* held[i]: the frame at place i                          *)
  out             (* the block that is given out: its places and frames     *)

channelVars == <<first, last, held, out>>

Places == first .. last - 1

(* More frames come behind those that wait, each at its place.              *)
Put ==
  /\ last' > last
  /\ DOMAIN held' = Places'
  /\ \A i \in Places : held'[i] = held[i]
  /\ \A i \in last .. last' - 1 : held'[i].at = i
  /\ UNCHANGED <<first, out>>

(* The oldest ones are taken, as they were put in.                          *)
Get ==
  /\ first' > first /\ first' <= last
  /\ out' = [i \in first .. first' - 1 |-> held[i]]
  /\ held' = [i \in Places' |-> held[i]]
  /\ UNCHANGED last

(* The block has been given out.                                            *)
Given ==
  /\ DOMAIN out' = {}
  /\ UNCHANGED <<first, last, held>>

(* The oldest ones are dropped.                                             *)
Flush ==
  /\ first' > first /\ first' <= last
  /\ held' = [i \in Places' |-> held[i]]
  /\ UNCHANGED <<last, out>>

ChannelNext == Put \/ Get \/ Given \/ Flush
=============================================================================
