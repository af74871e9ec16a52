---------------------------- MODULE SaturnCapture ----------------------------
(***************************************************************************)
(* The process in a container of the ymir screenshotter (worker_driver.    *)
(* cpp): every so many iterations of half a second it writes the last      *)
(* frame the emulator has completed, if there is a new one and it is not   *)
(* of a single colour.  A screenshot that cannot be written is passed over.*)
(***************************************************************************)
EXTENDS Naturals, FiniteSets

CONSTANTS Containers, Outs, Rates, MaxTorn,
          Iterations, \* opts.iterations
          Every       \* opts.screenshot_every_n_iters

VARIABLES proc, disc, rate, shots,
          clock,  \* cumulative_frame
          fb      \* the frame buffer of the driver

NoImage == [at |-> 0, blank |-> TRUE, fresh |-> FALSE]

FrameBuffer == [at : Nat, blank : BOOLEAN, fresh : BOOLEAN]

(* frames_per_iter                                                         *)
Step(c) == IF rate[c] < 2 THEN 1 ELSE rate[c] \div 2

Torn == UNION {{s \in shots[o] : ~s.whole} : o \in Outs}

Save(c, o, whole) ==
  shots' = [shots EXCEPT ![o] =
              {s \in @ : s.frame # clock[c]}
                \cup {[frame |-> clock[c], at |-> fb[c].at, of |-> disc[c], whole |-> whole]}]

Enter(c, place) == proc' = [proc EXCEPT ![c] = place]

(* The IPL is read and the disc is loaded.                                 *)
BootSaturn(c, d) ==
  /\ proc[c] = "created"
  /\ disc' = [disc EXCEPT ![c] = d]
  /\ \E r \in Rates : rate' = [rate EXCEPT ![c] = r]
  /\ Enter(c, "emulating")
  /\ UNCHANGED <<shots, clock, fb>>

(* on_frame_complete runs for every frame the emulator completes: a game   *)
(* may complete none.                                                      *)
Iterate(c) ==
  /\ proc[c] = "emulating"
  /\ clock[c] < Iterations * Step(c)
  /\ clock' = [clock EXCEPT ![c] = @ + Step(c)]
  /\ \/ UNCHANGED fb
     \/ \E b \in BOOLEAN : fb' = [fb EXCEPT ![c] = [at |-> clock'[c], blank |-> b, fresh |-> TRUE]]
  /\ Enter(c, IF (clock'[c] \div Step(c)) % Every = 0 THEN "writing" ELSE "emulating")
  /\ UNCHANGED <<disc, rate, shots>>

(* Mutant: a frame that was written stays fresh.                           *)
SeenNothing(c) == UNCHANGED fb

Seen(c) == fb' = [fb EXCEPT ![c].fresh = FALSE]

PassOver(c) ==
  /\ proc[c] = "writing"
  /\ ~fb[c].fresh \/ fb[c].blank
  /\ Seen(c)
  /\ Enter(c, "emulating")
  /\ UNCHANGED <<disc, rate, shots, clock>>

(* The results of fwrite and fclose are not looked at.                     *)
WriteFrame(c, o) ==
  /\ proc[c] = "writing"
  /\ fb[c].fresh /\ ~fb[c].blank
  /\ \/ Save(c, o, TRUE)
     \/ Cardinality(Torn) < MaxTorn /\ (Save(c, o, FALSE) \/ UNCHANGED shots)
  /\ Seen(c)
  /\ Enter(c, "emulating")
  /\ UNCHANGED <<disc, rate, clock>>

(* The memory of a process ends with it.                                   *)
Leave(c, place) == /\ Enter(c, place)
                   /\ clock' = [clock EXCEPT ![c] = 0]
                   /\ fb' = [fb EXCEPT ![c] = NoImage]

EndSaturn(c) ==
  /\ proc[c] = "emulating"
  /\ clock[c] = Iterations * Step(c)
  /\ Leave(c, "done")
  /\ UNCHANGED <<disc, rate, shots>>

(* A disc or an IPL that is refused, or a kill.                            *)
StopSaturn(c, o) ==
  /\ proc[c] \in {"created", "emulating", "writing"}
  /\ \/ UNCHANGED shots
     \/ proc[c] = "writing" /\ fb[c].fresh /\ ~fb[c].blank /\ Save(c, o, FALSE)
  /\ Leave(c, "stopped")
  /\ UNCHANGED <<disc, rate>>

Saturn(c, o) == Iterate(c) \/ PassOver(c) \/ WriteFrame(c, o) \/ EndSaturn(c)
=============================================================================
