-------------------------- MODULE GpsRescueProofs --------------------------
(***************************************************************************)
(* Theorems about GpsRescue for every limit and every setting: its type    *)
(* invariant, the end of a failed rescue, that a failed rescue stays       *)
(* failed, and the flyaway that is noticed.                                *)
(***************************************************************************)
EXTENDS GpsRescue, TLAPS

Over == {"DO_NOTHING", "ABORT", "IDLE"}

-----------------------------------------------------------------------------
(* The sanity checks, one by one. *)

LEMMA CountedRange ==
    ASSUME NEW limit \in Nat, NEW n \in Nat, NEW up \in BOOLEAN
    PROVE  /\ Counted(n, up, limit) \in 0..limit
           /\ up /\ n < limit => Counted(n, up, limit) = n + 1
           /\ ~up /\ n < limit => Counted(n, up, limit) < limit
BY DEF Counted

LEMMA Limits ==
    /\ FlyawayLimit \in Nat /\ FlyawayLimit > 0
    /\ StuckLimit \in 0..FlyawayLimit /\ StuckLimit > 0
    /\ LowSatsLimit \in Nat /\ LowSatsLimit > 0
    /\ NothingLimit \in Nat /\ NothingLimit > 0
BY RescueAssumption

(* What is checked in every pass. *)
Checked(r, in) == GpsChecked(CrashChecked(FailureHandled(CountersReset(r), in), in))

LEMMA CheckedFields ==
    ASSUME NEW r \in RescueStates, NEW in
    PROVE  /\ Checked(r, in) \in RescueStates
           /\ r.failure # "HEALTHY" => /\ Checked(r, in).phase \in Over
                                       /\ Checked(r, in).failure # "HEALTHY"
           /\ r.failure = "HEALTHY" => Checked(r, in).phase \in {r.phase, "IDLE"}
           /\ Checked(r, in).secondsFailing = r.secondsFailing
           /\ Checked(r, in).magForceDisable = r.magForceDisable
           /\ r.phase # "INITIALIZE" =>
                 Checked(r, in).secondsDoingNothing = r.secondsDoingNothing
           /\ r.phase = "INITIALIZE" => Checked(r, in).secondsDoingNothing = 0
<1> DEFINE a == CountersReset(r)
           b == FailureHandled(a, in)
           c == CrashChecked(b, in)
<1>1. /\ a \in RescueStates /\ a.phase = r.phase /\ a.failure = r.failure
      /\ a.secondsFailing = r.secondsFailing
      /\ a.magForceDisable = r.magForceDisable
      /\ a.secondsDoingNothing =
            IF r.phase = "INITIALIZE" THEN 0 ELSE r.secondsDoingNothing
  <2>1. CASE r.phase = "INITIALIZE"
    <3> DEFINE s == [r EXCEPT !.secondsLowSats = 0]
    <3>1. /\ s \in RescueStates /\ s.phase = r.phase /\ s.failure = r.failure
          /\ s.secondsFailing = r.secondsFailing
          /\ s.magForceDisable = r.magForceDisable
      BY Limits DEF RescueStates
    <3>2. a = [s EXCEPT !.secondsDoingNothing = 0]
      BY <2>1 DEF CountersReset, RescueStates
    <3> HIDE DEF s, a
    <3> QED BY <2>1, <3>1, <3>2, Limits DEF RescueStates
  <2>2. CASE r.phase # "INITIALIZE"
    BY <2>2 DEF CountersReset
  <2> QED BY <2>1, <2>2
<1>2. /\ b \in RescueStates /\ b.failure = a.failure
      /\ a.failure # "HEALTHY" => b.phase \in Over
      /\ a.failure = "HEALTHY" => b.phase = a.phase
      /\ b.secondsFailing = a.secondsFailing
      /\ b.magForceDisable = a.magForceDisable
      /\ b.secondsDoingNothing = a.secondsDoingNothing
  <2> HIDE DEF a
  <2> QED BY <1>1 DEF FailureHandled, RescueStates, Phases, Over
<1>3. /\ c \in RescueStates /\ c.failure = b.failure
      /\ c.phase \in {b.phase, "IDLE"}
      /\ c.secondsFailing = b.secondsFailing
      /\ c.magForceDisable = b.magForceDisable
      /\ c.secondsDoingNothing = b.secondsDoingNothing
  <2> HIDE DEF b
  <2> QED BY <1>2 DEF CrashChecked, Disarmed, RescueStates, Phases
<1>4. /\ GpsChecked(c) \in RescueStates /\ GpsChecked(c).phase = c.phase
      /\ c.failure # "HEALTHY" => GpsChecked(c).failure # "HEALTHY"
      /\ GpsChecked(c).secondsFailing = c.secondsFailing
      /\ GpsChecked(c).magForceDisable = c.magForceDisable
      /\ GpsChecked(c).secondsDoingNothing = c.secondsDoingNothing
  <2> HIDE DEF c
  <2> QED BY <1>3 DEF GpsChecked, RescueStates, Failures
<1>5. Checked(r, in) = GpsChecked(c)
  BY DEF Checked
<1> HIDE DEF a, b, c
<1>6. c.failure = r.failure /\ GpsChecked(c).phase = c.phase
  BY <1>1, <1>2, <1>3, <1>4
<1>7. r.failure # "HEALTHY" => c.phase \in Over
  BY <1>1, <1>2, <1>3 DEF Over
<1>8. r.failure = "HEALTHY" => c.phase \in {r.phase, "IDLE"}
  BY <1>1, <1>2, <1>3
<1> QED
  BY <1>1, <1>2, <1>3, <1>4, <1>5, <1>6, <1>7, <1>8

LEMMA FlightFields ==
    ASSUME NEW r \in RescueStates, NEW in, in.progress \in BOOLEAN
    PROVE  LET s == FlightChecked(r, in)
           IN  /\ s \in RescueStates /\ s.phase = r.phase
               /\ r.failure # "HEALTHY" => s.failure # "HEALTHY"
               /\ s.secondsDoingNothing = r.secondsDoingNothing
               /\ s.magForceDisable => r.magForceDisable \/ UseMag
               /\ r.phase # "FLY_HOME" =>
                     /\ s.magForceDisable = r.magForceDisable
                     /\ s.secondsFailing = r.secondsFailing
               /\ r.phase = "FLY_HOME" /\ s.failure = "HEALTHY"
                    /\ r.secondsFailing < FlyawayLimit =>
                     /\ s.secondsFailing < FlyawayLimit
                     /\ \/ /\ s.magForceDisable = r.magForceDisable
                           /\ ~in.progress =>
                                 s.secondsFailing = r.secondsFailing + 1
                        \/ /\ UseMag /\ s.magForceDisable /\ ~r.magForceDisable
                           /\ s.secondsFailing = 0
                           /\ r.secondsFailing + 1 = FlyawayLimit
<1> DEFINE n == Counted(r.secondsFailing, ~in.progress, FlyawayLimit)
           t == [r EXCEPT !.secondsFailing = n]
<1>1. r.secondsFailing \in 0..FlyawayLimit /\ r.secondsFailing \in Nat
  BY Limits DEF RescueStates
<1>2. /\ n \in 0..FlyawayLimit
      /\ ~in.progress /\ r.secondsFailing < FlyawayLimit => n = r.secondsFailing + 1
      /\ in.progress /\ r.secondsFailing < FlyawayLimit => n < FlyawayLimit
  BY <1>1, Limits, CountedRange
<1> HIDE DEF n
<1>3. /\ t \in RescueStates /\ t.phase = r.phase /\ t.failure = r.failure
      /\ t.secondsDoingNothing = r.secondsDoingNothing
      /\ t.magForceDisable = r.magForceDisable /\ t.secondsFailing = n
  BY <1>2 DEF RescueStates
<1> HIDE DEF t
<1>4. LET s == FlyawayFound(t)
      IN  /\ s \in RescueStates /\ s.phase = t.phase
          /\ s.secondsDoingNothing = t.secondsDoingNothing
          /\ s.magForceDisable => t.magForceDisable \/ UseMag
          /\ t.failure # "HEALTHY" => s.failure # "HEALTHY"
          /\ s.failure = "HEALTHY" =>
                /\ UseMag /\ s.magForceDisable /\ ~t.magForceDisable
                /\ s.secondsFailing = 0
  <2>1. CASE UseMag /\ ~t.magForceDisable
    <3>1. FlyawayFound(t) =
            [t EXCEPT !.magForceDisable = TRUE, !.secondsFailing = 0]
      BY <2>1 DEF FlyawayFound
    <3> DEFINE s == [t EXCEPT !.magForceDisable = TRUE]
    <3>2. /\ s \in RescueStates /\ s.phase = t.phase /\ s.failure = t.failure
          /\ s.secondsDoingNothing = t.secondsDoingNothing
          /\ s.magForceDisable
      BY <1>3 DEF RescueStates
    <3>3. FlyawayFound(t) = [s EXCEPT !.secondsFailing = 0]
      BY <1>3, <3>1 DEF RescueStates
    <3> HIDE DEF s
    <3> QED BY <2>1, <3>2, <3>3, Limits DEF RescueStates
  <2>2. CASE ~(UseMag /\ ~t.magForceDisable)
    <3>1. FlyawayFound(t) = [t EXCEPT !.failure = "FLYAWAY"]
      BY <2>2 DEF FlyawayFound
    <3> QED BY <1>3, <3>1 DEF RescueStates, Failures
  <2> QED BY <2>1, <2>2
<1>5. CASE r.phase # "FLY_HOME"
  BY <1>5 DEF FlightChecked
<1>6. CASE r.phase = "FLY_HOME"
  <2>1. FlightChecked(r, in) = IF n = FlyawayLimit THEN FlyawayFound(t) ELSE t
    BY <1>6 DEF FlightChecked, n, t
  <2>2. CASE n = FlyawayLimit
    BY <2>1, <2>2, <1>1, <1>2, <1>3, <1>4, <1>6, Limits
  <2>3. CASE n # FlyawayLimit
    BY <2>1, <2>3, <1>1, <1>2, <1>3, <1>6, Limits
  <2> QED BY <2>2, <2>3
<1> QED
  BY <1>5, <1>6

LEMMA SatsFields ==
    ASSUME NEW r \in RescueStates, NEW in, in.fewSats \in BOOLEAN
    PROVE  LET s == SatsChecked(r, in)
           IN  /\ s \in RescueStates /\ s.phase = r.phase
               /\ r.failure # "HEALTHY" => s.failure # "HEALTHY"
               /\ s.secondsDoingNothing = r.secondsDoingNothing
               /\ s.magForceDisable = r.magForceDisable
               /\ s.secondsFailing = r.secondsFailing
<1> DEFINE n == Counted(r.secondsLowSats, in.fewSats, LowSatsLimit)
<1>1. n \in 0..LowSatsLimit
  BY Limits, CountedRange DEF RescueStates
<1> HIDE DEF n
<1>2. SatsChecked(r, in) =
        [r EXCEPT !.secondsLowSats = n,
                  !.failure = IF n = LowSatsLimit THEN "LOWSATS" ELSE @]
  BY DEF SatsChecked, n
<1>3. CASE n = LowSatsLimit
  <2>1. SatsChecked(r, in) =
          [r EXCEPT !.secondsLowSats = n, !.failure = "LOWSATS"]
    BY <1>2, <1>3
  <2> QED BY <1>1, <2>1 DEF RescueStates, Failures
<1>4. CASE n # LowSatsLimit
  <2>1. SatsChecked(r, in) = [r EXCEPT !.secondsLowSats = n]
    BY <1>2, <1>4 DEF RescueStates
  <2> QED BY <1>1, <2>1 DEF RescueStates
<1> QED BY <1>3, <1>4

LEMMA AltitudeFields ==
    ASSUME NEW r \in RescueStates, NEW in, in.progress \in BOOLEAN
    PROVE  LET s == AltitudeChecked(r, in)
           IN  /\ s \in RescueStates /\ s.failure = r.failure
               /\ s.secondsDoingNothing = r.secondsDoingNothing
               /\ s.magForceDisable = r.magForceDisable
               /\ r.phase \notin {"ATTAIN_ALT", "DESCENT", "LANDING"} => s = r
               /\ r.phase \in {"ATTAIN_ALT", "DESCENT", "LANDING"} =>
                     s.phase \in {r.phase, "LANDING", "ABORT"}
<1> DEFINE n == Counted(r.secondsFailing, ~in.progress, StuckLimit)
<1>1. n \in 0..FlyawayLimit
  <2>1. r.secondsFailing \in Nat /\ StuckLimit \in Nat
    BY Limits DEF RescueStates
  <2>2. n \in 0..StuckLimit
    BY <2>1, CountedRange
  <2> HIDE DEF n
  <2> QED BY <2>2, Limits
<1> HIDE DEF n
<1>2. AltitudeChecked(r, in) =
        IF r.phase \notin {"ATTAIN_ALT", "DESCENT", "LANDING"} THEN r
        ELSE LET s == [r EXCEPT !.secondsFailing = n]
             IN  IF n < StuckLimit THEN s
                 ELSE IF r.phase = "LANDING" THEN [s EXCEPT !.phase = "ABORT"]
                 ELSE [s EXCEPT !.phase = "LANDING", !.secondsFailing = 0]
  BY DEF AltitudeChecked, n
<1>3. CASE r.phase \notin {"ATTAIN_ALT", "DESCENT", "LANDING"}
  BY <1>2, <1>3
<1>4. CASE r.phase \in {"ATTAIN_ALT", "DESCENT", "LANDING"} /\ n < StuckLimit
  <2>1. AltitudeChecked(r, in) = [r EXCEPT !.secondsFailing = n]
    BY <1>2, <1>4
  <2> QED BY <1>1, <1>4, <2>1 DEF RescueStates
<1>5. CASE r.phase = "LANDING" /\ ~(n < StuckLimit)
  <2>1. AltitudeChecked(r, in) =
          [[r EXCEPT !.secondsFailing = n] EXCEPT !.phase = "ABORT"]
    BY <1>2, <1>5
  <2> QED BY <1>1, <1>5, <2>1 DEF RescueStates, Phases
<1>6. CASE r.phase \in {"ATTAIN_ALT", "DESCENT"} /\ ~(n < StuckLimit)
  <2> DEFINE s == [r EXCEPT !.phase = "LANDING"]
  <2>1. /\ s \in RescueStates /\ s.failure = r.failure /\ s.phase = "LANDING"
        /\ s.secondsDoingNothing = r.secondsDoingNothing
        /\ s.magForceDisable = r.magForceDisable
    BY DEF RescueStates, Phases
  <2>2. AltitudeChecked(r, in) = [s EXCEPT !.secondsFailing = 0]
    BY <1>2, <1>6 DEF RescueStates
  <2> HIDE DEF s
  <2> QED BY <1>6, <2>1, <2>2, Limits DEF RescueStates
<1> QED BY <1>3, <1>4, <1>5, <1>6

LEMMA NothingFields ==
    ASSUME NEW r \in RescueStates
    PROVE  LET s == NothingChecked(r)
           IN  /\ s \in RescueStates /\ s.failure = r.failure
               /\ r.phase # "DO_NOTHING" => s = r
               /\ s.secondsFailing = r.secondsFailing
               /\ s.magForceDisable = r.magForceDisable
               /\ r.phase = "DO_NOTHING" =>
                     /\ s.phase \in {"DO_NOTHING", "ABORT"}
                     /\ s.phase = "DO_NOTHING" =>
                           s.secondsDoingNothing < NothingLimit
                     /\ r.secondsDoingNothing < NothingLimit =>
                           s.secondsDoingNothing = r.secondsDoingNothing + 1
<1> DEFINE n == Counted(r.secondsDoingNothing, TRUE, NothingLimit)
<1>1. r.secondsDoingNothing \in 0..NothingLimit /\ r.secondsDoingNothing \in Nat
  BY Limits DEF RescueStates
<1>2. /\ n \in 0..NothingLimit
      /\ r.secondsDoingNothing < NothingLimit => n = r.secondsDoingNothing + 1
  BY <1>1, Limits, CountedRange
<1> HIDE DEF n
<1>3. NothingChecked(r) =
        IF r.phase # "DO_NOTHING" THEN r
        ELSE [r EXCEPT !.secondsDoingNothing = n,
                       !.phase = IF n = NothingLimit THEN "ABORT" ELSE @]
  BY DEF NothingChecked, n
<1>4. CASE r.phase # "DO_NOTHING"
  BY <1>3, <1>4
<1>5. CASE r.phase = "DO_NOTHING" /\ n = NothingLimit
  <2> DEFINE s == [r EXCEPT !.phase = "ABORT"]
  <2>1. /\ s \in RescueStates /\ s.failure = r.failure /\ s.phase = "ABORT"
        /\ s.secondsFailing = r.secondsFailing
        /\ s.magForceDisable = r.magForceDisable
    BY DEF RescueStates, Phases
  <2>2. NothingChecked(r) = [s EXCEPT !.secondsDoingNothing = n]
    BY <1>3, <1>5 DEF RescueStates
  <2> HIDE DEF s
  <2> QED BY <1>2, <1>5, <2>1, <2>2 DEF RescueStates
<1>6. CASE r.phase = "DO_NOTHING" /\ n # NothingLimit
  <2>1. NothingChecked(r) = [r EXCEPT !.secondsDoingNothing = n]
    BY <1>3, <1>6 DEF RescueStates
  <2>2. n < NothingLimit
    BY <1>2, <1>6, Limits
  <2> QED BY <1>1, <1>2, <1>6, <2>1, <2>2 DEF RescueStates
<1> QED BY <1>4, <1>5, <1>6

-----------------------------------------------------------------------------
(* The sanity checks together. *)

Readable(in) == in.healthy \in BOOLEAN /\ in.progress \in BOOLEAN
                    /\ in.fewSats \in BOOLEAN /\ in.hit \in BOOLEAN

LEMMA ReadingsAreReadable == \A in \in Readings : Readable(in)
BY DEF Readings, Readable

(* What becomes of the flight home in a second: the counter goes on, or the *)
(* flight is tried again without the magnetometer.                          *)
FlightGoesOn(r, s, in) ==
    /\ s.secondsFailing < FlyawayLimit
    /\ \/ /\ s.magForceDisable = r.magForceDisable
          /\ ~in.progress => s.secondsFailing = r.secondsFailing + 1
       \/ /\ UseMag /\ s.magForceDisable /\ ~r.magForceDisable
          /\ s.secondsFailing = 0
          /\ r.secondsFailing + 1 = FlyawayLimit

AltitudePhases == {"ATTAIN_ALT", "DESCENT", "LANDING"}

LEMMA SlowFields ==
    ASSUME NEW r \in RescueStates, NEW in, Readable(in)
    PROVE  LET s == SlowChecked(r, in)
           IN  /\ s \in RescueStates
               /\ r.failure # "HEALTHY" => s.failure # "HEALTHY"
               /\ s.magForceDisable => r.magForceDisable \/ UseMag
               /\ r.phase \notin AltitudePhases \cup {"DO_NOTHING"} =>
                     s.phase = r.phase
               /\ r.phase \in AltitudePhases =>
                     s.phase \in {r.phase, "LANDING", "ABORT"}
               /\ r.phase # "DO_NOTHING" =>
                     s.secondsDoingNothing = r.secondsDoingNothing
               /\ r.phase = "DO_NOTHING" =>
                     /\ s.phase \in {"DO_NOTHING", "ABORT"}
                     /\ s.phase = "DO_NOTHING" =>
                           s.secondsDoingNothing < NothingLimit
                     /\ r.secondsDoingNothing < NothingLimit =>
                           s.secondsDoingNothing = r.secondsDoingNothing + 1
               /\ r.phase = "FLY_HOME" /\ s.failure = "HEALTHY"
                    /\ r.secondsFailing < FlyawayLimit => FlightGoesOn(r, s, in)
<1> DEFINE a == FlightChecked(r, in)
           b == SatsChecked(a, in)
           c == AltitudeChecked(b, in)
           s == NothingChecked(c)
<1>1. SlowChecked(r, in) = s
  BY DEF SlowChecked
<1>2. /\ a \in RescueStates /\ a.phase = r.phase
      /\ r.failure # "HEALTHY" => a.failure # "HEALTHY"
      /\ a.magForceDisable => r.magForceDisable \/ UseMag
      /\ a.secondsDoingNothing = r.secondsDoingNothing
      /\ r.phase = "FLY_HOME" /\ a.failure = "HEALTHY"
            /\ r.secondsFailing < FlyawayLimit => FlightGoesOn(r, a, in)
  BY FlightFields DEF Readable, FlightGoesOn
<1> HIDE DEF a
<1>3. /\ b \in RescueStates /\ b.phase = a.phase
      /\ a.failure # "HEALTHY" => b.failure # "HEALTHY"
      /\ b.secondsDoingNothing = a.secondsDoingNothing
      /\ b.magForceDisable = a.magForceDisable
      /\ b.secondsFailing = a.secondsFailing
  BY <1>2, SatsFields DEF Readable
<1> HIDE DEF b
<1>4. /\ c \in RescueStates /\ c.failure = b.failure
      /\ c.secondsDoingNothing = b.secondsDoingNothing
      /\ c.magForceDisable = b.magForceDisable
      /\ b.phase \notin AltitudePhases => c = b
      /\ b.phase \in AltitudePhases => c.phase \in {b.phase, "LANDING", "ABORT"}
  BY <1>3, AltitudeFields DEF Readable, AltitudePhases
<1> HIDE DEF c
<1>5. /\ s \in RescueStates /\ s.failure = c.failure
      /\ s.magForceDisable = c.magForceDisable
      /\ c.phase # "DO_NOTHING" => s = c
      /\ c.phase = "DO_NOTHING" =>
            /\ s.phase \in {"DO_NOTHING", "ABORT"}
            /\ s.phase = "DO_NOTHING" => s.secondsDoingNothing < NothingLimit
            /\ c.secondsDoingNothing < NothingLimit =>
                  s.secondsDoingNothing = c.secondsDoingNothing + 1
  BY <1>4, NothingFields
<1> HIDE DEF s
<1>6. /\ r.failure # "HEALTHY" => s.failure # "HEALTHY"
      /\ s.magForceDisable => r.magForceDisable \/ UseMag
  BY <1>2, <1>3, <1>4, <1>5
<1>7. CASE r.phase \in AltitudePhases
  <2>1. c.phase \in {r.phase, "LANDING", "ABORT"} /\ c.phase # "DO_NOTHING"
    BY <1>2, <1>3, <1>4, <1>7 DEF AltitudePhases
  <2>2. s = c /\ r.phase # "FLY_HOME" /\ r.phase # "DO_NOTHING"
    BY <1>5, <1>7, <2>1 DEF AltitudePhases
  <2> QED BY <1>1, <1>2, <1>3, <1>4, <1>5, <1>6, <1>7, <2>1, <2>2
<1>8. CASE r.phase = "DO_NOTHING"
  <2>1. c = b /\ c.phase = "DO_NOTHING"
    BY <1>2, <1>3, <1>4, <1>8 DEF AltitudePhases
  <2>2. c.secondsDoingNothing = r.secondsDoingNothing
    BY <1>2, <1>3, <1>4
  <2> QED BY <1>1, <1>5, <1>6, <1>8, <2>1, <2>2 DEF AltitudePhases
<1>9. CASE r.phase \notin AltitudePhases \cup {"DO_NOTHING"}
  <2>1. c = b /\ s = b /\ s.phase = r.phase
    BY <1>2, <1>3, <1>4, <1>5, <1>9
  <2>2. r.phase = "FLY_HOME" /\ s.failure = "HEALTHY"
            /\ r.secondsFailing < FlyawayLimit => FlightGoesOn(r, s, in)
    BY <1>2, <1>3, <2>1 DEF FlightGoesOn
  <2> QED BY <1>1, <1>2, <1>3, <1>5, <1>6, <1>9, <2>1, <2>2
<1> QED
  BY <1>7, <1>8, <1>9

Slow == checkDue /\ ~Starts

(* The seconds of doing nothing with which a check begins. *)
NothingSoFar(r) == IF r.phase = "INITIALIZE" THEN 0 ELSE r.secondsDoingNothing

LEMMA SanityFields ==
    ASSUME NEW r \in RescueStates, NEW in, Readable(in), r.phase # "IDLE"
    PROVE  LET e == SanityChecked(r, in)
           IN  /\ e \in RescueStates
               /\ e.magForceDisable => r.magForceDisable \/ UseMag
               /\ r.failure # "HEALTHY" =>
                     e.phase \in Over /\ e.failure # "HEALTHY"
               /\ r.failure = "HEALTHY" /\ r.phase \in AltitudePhases =>
                     e.phase \in {r.phase, "LANDING", "ABORT", "IDLE"}
               /\ r.failure = "HEALTHY"
                    /\ r.phase \notin AltitudePhases \cup {"DO_NOTHING"} =>
                     e.phase \in {r.phase, "IDLE"}
               /\ e.phase \notin Over =>
                     e.secondsDoingNothing = NothingSoFar(r)
               /\ e.phase = "DO_NOTHING" /\ NothingSoFar(r) < NothingLimit =>
                     /\ e.secondsDoingNothing < NothingLimit
                     /\ e.secondsDoingNothing =
                           NothingSoFar(r) + (IF Slow THEN 1 ELSE 0)
               /\ r.phase = "FLY_HOME" /\ e.phase = "FLY_HOME"
                    /\ e.failure = "HEALTHY" /\ r.secondsFailing < FlyawayLimit =>
                     IF Slow THEN FlightGoesOn(r, e, in)
                     ELSE /\ e.secondsFailing = r.secondsFailing
                          /\ e.magForceDisable = r.magForceDisable
<1> DEFINE c == Checked(r, in)
           e == SanityChecked(r, in)
<1>1. /\ c \in RescueStates
      /\ r.failure # "HEALTHY" => c.phase \in Over /\ c.failure # "HEALTHY"
      /\ r.failure = "HEALTHY" => c.phase \in {r.phase, "IDLE"}
      /\ c.secondsFailing = r.secondsFailing
      /\ c.magForceDisable = r.magForceDisable
      /\ c.secondsDoingNothing = NothingSoFar(r)
  BY CheckedFields DEF NothingSoFar
<1>2. e = IF Slow THEN SlowChecked(c, in) ELSE c
  BY DEF SanityChecked, Checked, Slow
<1> HIDE DEF c, e
<1>3. c.secondsDoingNothing \in Nat /\ NothingSoFar(r) \in Nat
  BY <1>1, Limits DEF RescueStates
<1>4. CASE ~Slow
  <2>1. e = c
    BY <1>2, <1>4
  <2> QED BY <1>1, <1>3, <1>4, <2>1 DEF Over, e
<1>5. CASE Slow
  <2> DEFINE s == SlowChecked(c, in)
  <2>1. /\ s \in RescueStates
        /\ s.magForceDisable => c.magForceDisable \/ UseMag
        /\ c.failure # "HEALTHY" => s.failure # "HEALTHY"
        /\ c.phase \notin AltitudePhases \cup {"DO_NOTHING"} => s.phase = c.phase
        /\ c.phase \in AltitudePhases =>
              s.phase \in {c.phase, "LANDING", "ABORT"}
        /\ c.phase # "DO_NOTHING" =>
              s.secondsDoingNothing = c.secondsDoingNothing
        /\ c.phase = "DO_NOTHING" =>
              /\ s.phase \in {"DO_NOTHING", "ABORT"}
              /\ s.phase = "DO_NOTHING" => s.secondsDoingNothing < NothingLimit
              /\ c.secondsDoingNothing < NothingLimit =>
                    s.secondsDoingNothing = c.secondsDoingNothing + 1
        /\ c.phase = "FLY_HOME" /\ s.failure = "HEALTHY"
              /\ c.secondsFailing < FlyawayLimit => FlightGoesOn(c, s, in)
    BY <1>1, SlowFields
  <2>2. e = s
    BY <1>2, <1>5
  <2> HIDE DEF s
  <2>3. r.failure # "HEALTHY" => s.phase \in Over /\ s.failure # "HEALTHY"
    BY <1>1, <2>1 DEF Over, AltitudePhases
  <2>4. r.failure = "HEALTHY" /\ r.phase \in AltitudePhases =>
            s.phase \in {r.phase, "LANDING", "ABORT", "IDLE"}
    BY <1>1, <2>1 DEF AltitudePhases
  <2>5. r.failure = "HEALTHY" /\ r.phase \notin AltitudePhases \cup {"DO_NOTHING"} =>
            s.phase \in {r.phase, "IDLE"}
    BY <1>1, <2>1 DEF AltitudePhases
  <2>6. s.phase \notin Over => s.secondsDoingNothing = NothingSoFar(r)
    BY <1>1, <2>1 DEF Over
  <2>7. s.phase = "DO_NOTHING" /\ NothingSoFar(r) < NothingLimit =>
            /\ s.secondsDoingNothing < NothingLimit
            /\ s.secondsDoingNothing = NothingSoFar(r) + (IF Slow THEN 1 ELSE 0)
    <3>1. s.phase = "DO_NOTHING" => c.phase = "DO_NOTHING"
      BY <2>1 DEF AltitudePhases
    <3> QED BY <1>1, <1>5, <2>1, <3>1
  <2>8. r.phase = "FLY_HOME" /\ s.phase = "FLY_HOME" /\ s.failure = "HEALTHY"
            /\ r.secondsFailing < FlyawayLimit => FlightGoesOn(r, s, in)
    <3>1. s.phase = "FLY_HOME" => c.phase = "FLY_HOME"
      BY <2>1 DEF AltitudePhases
    <3> QED BY <1>1, <2>1, <3>1 DEF FlightGoesOn
  <2>9. s.magForceDisable => r.magForceDisable \/ UseMag
    BY <1>1, <2>1
  <2> QED
    BY <1>5, <2>1, <2>2, <2>3, <2>4, <2>5, <2>6, <2>7, <2>8, <2>9 DEF e
<1> QED
  BY <1>4, <1>5

LEMMA IdleFields ==
    ASSUME NEW r \in RescueStates, NEW in, r.phase = "IDLE"
    PROVE  LET e == SanityChecked(r, in)
           IN  /\ e \in RescueStates /\ e.phase = "IDLE"
               /\ e.secondsDoingNothing = r.secondsDoingNothing
BY DEF SanityChecked, RescueStates, Failures

-----------------------------------------------------------------------------
(* A pass. *)

(* What a pass begins with: the state of the phase it makes. *)
Begun(in) == Sensed(Started(rescueState, in), in)

LEMMA SensedFields ==
    ASSUME NEW r \in RescueStates, NEW in, Readable(in)
    PROVE  LET s == Sensed(r, in)
           IN  /\ s \in RescueStates /\ s.phase = r.phase
               /\ s.failure = r.failure /\ s.secondsFailing = r.secondsFailing
               /\ s.magForceDisable = r.magForceDisable
               /\ s.secondsDoingNothing = r.secondsDoingNothing
<1> DEFINE t == [r EXCEPT !.healthy = in.healthy]
           hit == IF r.phase = "LANDING" THEN in.hit ELSE r.impact
<1>1. /\ t \in RescueStates /\ t.phase = r.phase
      /\ t.failure = r.failure /\ t.secondsFailing = r.secondsFailing
      /\ t.magForceDisable = r.magForceDisable
      /\ t.secondsDoingNothing = r.secondsDoingNothing
  BY DEF Readable, RescueStates
<1>2. hit \in BOOLEAN
  BY DEF Readable, RescueStates
<1>3. Sensed(r, in) = [t EXCEPT !.impact = hit]
  BY DEF Sensed, RescueStates
<1> HIDE DEF t, hit
<1> QED
  BY <1>1, <1>2, <1>3 DEF RescueStates

(* The start of a rescue. *)
LEMMA BegunNew ==
    ASSUME rescueState \in RescueStates, Starts, NEW in, Readable(in)
    PROVE  LET s == Begun(in)
           IN  /\ s \in RescueStates
               /\ s.phase \in {"INITIALIZE"} \cup Over
               /\ s.phase # "IDLE" => s.secondsDoingNothing = 0
               /\ s.phase = "DO_NOTHING" => s.failure # "HEALTHY"
               /\ rescueState.failure # "HEALTHY" => s.phase \in Over
               /\ s.magForceDisable = rescueState.magForceDisable
<1> DEFINE r == [rescueState EXCEPT !.phase = "INITIALIZE"]
           e == SanityChecked(r, in)
<1>1. /\ r \in RescueStates /\ r.phase = "INITIALIZE"
      /\ r.failure = rescueState.failure
      /\ r.magForceDisable = rescueState.magForceDisable
  BY DEF RescueStates, Phases
<1>2. e = Checked(r, in)
  BY <1>1 DEF SanityChecked, Checked
<1>3. Started(rescueState, in) = e
  BY DEF Started, Starts
<1> HIDE DEF r, e
<1>4. /\ e \in RescueStates
      /\ r.failure # "HEALTHY" => e.phase \in Over /\ e.failure # "HEALTHY"
      /\ r.failure = "HEALTHY" => e.phase \in {r.phase, "IDLE"}
      /\ e.secondsDoingNothing = 0
      /\ e.magForceDisable = r.magForceDisable
  BY <1>1, <1>2, CheckedFields
<1>5. e.phase \in {"INITIALIZE"} \cup Over /\ (e.phase = "DO_NOTHING" => e.failure # "HEALTHY")
  BY <1>1, <1>4 DEF Over
<1> QED
  BY <1>1, <1>3, <1>4, <1>5, SensedFields DEF Begun

(* A rescue that goes on. *)
LEMMA BegunOld ==
    ASSUME rescueState \in RescueStates, RescueMode, ~Starts,
           NEW in, Readable(in)
    PROVE  LET s == Begun(in)
           IN  /\ s \in RescueStates /\ s.phase = rescueState.phase
               /\ s.failure = rescueState.failure
               /\ s.secondsFailing = rescueState.secondsFailing
               /\ s.magForceDisable = rescueState.magForceDisable
               /\ s.secondsDoingNothing = rescueState.secondsDoingNothing
<1>1. Started(rescueState, in) = rescueState
  BY DEF Started
<1> QED
  BY <1>1, SensedFields DEF Begun

LEMMA BegunNone ==
    ASSUME rescueState \in RescueStates, ~RescueMode, NEW in, Readable(in)
    PROVE  /\ Begun(in) \in RescueStates /\ Begun(in).phase = "IDLE"
           /\ Begun(in).magForceDisable = rescueState.magForceDisable
<1>1. Started(rescueState, in) = [rescueState EXCEPT !.phase = "IDLE"]
  BY DEF Started
<1>2. /\ Started(rescueState, in) \in RescueStates
      /\ Started(rescueState, in).phase = "IDLE"
      /\ Started(rescueState, in).magForceDisable = rescueState.magForceDisable
  BY <1>1 DEF RescueStates, Phases
<1> QED
  BY <1>2, SensedFields DEF Begun

LEMMA DisarmedFields ==
    ASSUME NEW r \in RescueStates
    PROVE  LET s == Disarmed(r)
           IN  /\ s \in RescueStates /\ s.phase = "IDLE"
               /\ s.failure = r.failure
               /\ s.magForceDisable = r.magForceDisable
               /\ s.secondsDoingNothing = r.secondsDoingNothing
BY DEF Disarmed, RescueStates, Phases

LEMMA FlownFields ==
    ASSUME NEW r \in RescueStates, NEW in, r.phase \in DOMAIN PhaseAfter
    PROVE  LET s == Flown(r, in)
           IN  /\ s \in RescueStates /\ s.failure = r.failure
               /\ s.magForceDisable = r.magForceDisable
               /\ s.secondsDoingNothing = r.secondsDoingNothing
               /\ s.phase \in DOMAIN PhaseAfter \cup {"LANDING"}
               /\ s.phase = "FLY_HOME" =>
                     \/ r.phase = "FLY_HOME" /\ s.secondsFailing = r.secondsFailing
                     \/ r.phase = "ROTATE" /\ s.secondsFailing = 0
<1>1. DOMAIN PhaseAfter = {"ATTAIN_ALT", "ROTATE", "FLY_HOME", "DESCENT"}
  BY DEF PhaseAfter
<1>2. CASE ~in.reached
  BY <1>1, <1>2 DEF Flown
<1>3. CASE in.reached
  <2> DEFINE next == PhaseAfter[r.phase]
             n == IF r.phase = "ATTAIN_ALT" THEN r.secondsFailing ELSE 0
             t == [r EXCEPT !.phase = next]
  <2>1. /\ next \in {"ROTATE", "FLY_HOME", "DESCENT", "LANDING"}
        /\ next = "FLY_HOME" => r.phase = "ROTATE"
    BY <1>1 DEF PhaseAfter
  <2>2. n \in 0..FlyawayLimit /\ (r.phase = "ROTATE" => n = 0)
    BY Limits DEF RescueStates
  <2> HIDE DEF next
  <2>3. /\ t \in RescueStates /\ t.failure = r.failure /\ t.phase = next
        /\ t.magForceDisable = r.magForceDisable
        /\ t.secondsDoingNothing = r.secondsDoingNothing
    BY <2>1 DEF RescueStates, Phases
  <2>4. Flown(r, in) = [t EXCEPT !.secondsFailing = n]
    BY <1>3 DEF Flown, RescueStates, next
  <2> HIDE DEF t, n
  <2>5. LET s == Flown(r, in)
        IN  /\ s \in RescueStates /\ s.failure = t.failure /\ s.phase = t.phase
            /\ s.magForceDisable = t.magForceDisable
            /\ s.secondsDoingNothing = t.secondsDoingNothing
            /\ s.secondsFailing = n
    BY <2>2, <2>3, <2>4 DEF RescueStates
  <2> QED BY <1>1, <2>1, <2>2, <2>3, <2>5
<1> QED
  BY <1>2, <1>3

LEMMA MovedFields ==
    ASSUME NEW r \in RescueStates, NEW in, r.phase # "IDLE"
    PROVE  LET s == Moved(r, in)
           IN  /\ s \in RescueStates
               /\ r.phase = "INITIALIZE" =>
                     /\ s.phase \in {"INITIALIZE", "ATTAIN_ALT", "ABORT"}
                     /\ s.phase = "INITIALIZE" => s.failure # "HEALTHY"
               /\ r.phase # "INITIALIZE" => s.failure = r.failure
               /\ r.phase = "DO_NOTHING" => s.phase \in {"DO_NOTHING", "IDLE"}
               /\ r.phase = "ABORT" => s.phase = "IDLE"
               /\ r.phase \notin Over \cup {"INITIALIZE"} =>
                     s.phase \notin {"INITIALIZE", "DO_NOTHING", "ABORT"}
               /\ s.magForceDisable = r.magForceDisable
               /\ s.secondsDoingNothing = r.secondsDoingNothing
               /\ s.phase = "FLY_HOME" =>
                     \/ r.phase = "FLY_HOME" /\ s.secondsFailing = r.secondsFailing
                     \/ r.phase = "ROTATE" /\ s.secondsFailing = 0
<1>1. DOMAIN PhaseAfter = {"ATTAIN_ALT", "ROTATE", "FLY_HOME", "DESCENT"}
  BY DEF PhaseAfter
<1>2. CASE r.phase = "INITIALIZE"
  <2>1. Moved(r, in) = Initialized(r, in)
    BY <1>1, <1>2 DEF Moved
  <2>2. CASE in.home = "NONE"
    <3>1. Moved(r, in) = [r EXCEPT !.failure = "NO_HOME_POINT"]
      BY <2>1, <2>2 DEF Initialized
    <3> QED BY <1>2, <3>1 DEF RescueStates, Failures, Over
  <2>3. CASE in.home # "NONE" /\ in.home = "HERE"
    <3>1. Moved(r, in) = [r EXCEPT !.phase = "ABORT"]
      BY <2>1, <2>3 DEF Initialized
    <3> QED BY <1>2, <3>1 DEF RescueStates, Phases, Over
  <2>4. CASE in.home # "NONE" /\ in.home # "HERE"
    <3> DEFINE t == [r EXCEPT !.phase = "ATTAIN_ALT"]
    <3>1. /\ t \in RescueStates /\ t.phase = "ATTAIN_ALT"
          /\ t.magForceDisable = r.magForceDisable
          /\ t.secondsDoingNothing = r.secondsDoingNothing
      BY DEF RescueStates, Phases
    <3>2. Moved(r, in) = [t EXCEPT !.secondsFailing = 0]
      BY <2>1, <2>4 DEF Initialized, RescueStates
    <3> HIDE DEF t
    <3> QED BY <1>2, <3>1, <3>2, Limits DEF RescueStates, Over
  <2> QED BY <2>2, <2>3, <2>4
<1>3. CASE r.phase \in DOMAIN PhaseAfter
  <2>1. Moved(r, in) = Flown(r, in)
    BY <1>1, <1>3 DEF Moved
  <2> HIDE DEF PhaseAfter
  <2> QED BY <1>1, <1>3, <2>1, FlownFields DEF Over
<1>4. CASE r.phase \in {"LANDING", "DO_NOTHING"}
  <2>1. Moved(r, in) = DisarmOnImpact(r)
    BY <1>1, <1>4 DEF Moved
  <2>2. Moved(r, in) \in {r, Disarmed(r)}
    BY <2>1 DEF DisarmOnImpact
  <2> QED BY <1>4, <2>2, DisarmedFields DEF Over
<1>5. CASE r.phase = "ABORT"
  <2>1. Moved(r, in) = [Disarmed(r) EXCEPT !.secondsFailing = 0]
    BY <1>1, <1>5 DEF Moved
  <2> QED BY <1>5, <2>1, DisarmedFields, Limits DEF Over, RescueStates
<1> QED
  BY <1>1, <1>2, <1>3, <1>4, <1>5 DEF RescueStates, Phases

LEMMA MovedIdle ==
    ASSUME NEW r \in RescueStates, NEW in, r.phase = "IDLE"
    PROVE  Moved(r, in) = r
<1>1. DOMAIN PhaseAfter = {"ATTAIN_ALT", "ROTATE", "FLY_HOME", "DESCENT"}
  BY DEF PhaseAfter
<1> QED
  BY <1>1 DEF Moved

-----------------------------------------------------------------------------
(* The invariant: what the counters of a rescue say of its history. *)

(* The seconds since the failure are those of doing nothing.                *)
FailingOK(r, n) ==
    /\ n \in Nat
    /\ r.phase # "INITIALIZE"
    /\ r.phase = "IDLE" => n = 0
    /\ r.phase = "DO_NOTHING" =>
          /\ r.failure # "HEALTHY"
          /\ n <= r.secondsDoingNothing /\ r.secondsDoingNothing < NothingLimit
    /\ r.phase = "ABORT" => n <= NothingLimit
    /\ r.phase \notin Over => n = 0 /\ r.secondsDoingNothing = 0

(* The seconds without coming closer are those of the flight, and those of  *)
(* the first try before them.                                               *)
AwayOK(r, n) ==
    /\ n \in Nat
    /\ r.magForceDisable => UseMag
    /\ r.phase # "FLY_HOME" => n = 0
    /\ r.phase = "FLY_HOME" /\ r.failure = "HEALTHY" =>
          /\ r.secondsFailing < FlyawayLimit
          /\ n <= r.secondsFailing + (IF r.magForceDisable THEN FlyawayLimit ELSE 0)

RescueInv ==
    RescueTypeOK /\ FailingOK(rescueState, failing) /\ AwayOK(rescueState, away)

(* What a pass makes of the state and of the two histories. *)
Ended(in) == SanityChecked(Moved(Begun(in), in), in)

FailingAfter(e) ==
    IF Starts \/ e.phase = "IDLE" THEN 0
    ELSE IF rescueState.failure # "HEALTHY" /\ checkDue THEN failing + 1
    ELSE failing

Farther(e, in) ==
    checkDue /\ ~in.progress
        /\ rescueState.phase = "FLY_HOME" /\ e.phase = "FLY_HOME"

AwayAfter(e, in) ==
    IF Farther(e, in) THEN away + 1
    ELSE IF e.phase = "FLY_HOME" /\ ~checkDue THEN away
    ELSE 0

(* A pass that leaves the rescue idle. *)
LEMMA IdlePassKeeps ==
    ASSUME RescueInv, NEW in, Begun(in) \in RescueStates,
           Moved(Begun(in), in) \in RescueStates,
           Moved(Begun(in), in).phase = "IDLE",
           Moved(Begun(in), in).magForceDisable => UseMag
    PROVE  /\ Ended(in) \in RescueStates /\ Ended(in).phase = "IDLE"
           /\ FailingOK(Ended(in), FailingAfter(Ended(in)))
           /\ AwayOK(Ended(in), AwayAfter(Ended(in), in))
<1> DEFINE m == Moved(Begun(in), in)
           e == SanityChecked(m, in)
<1>1. e = [m EXCEPT !.failure = "HEALTHY"]
  BY DEF SanityChecked
<1>2. e \in RescueStates /\ e.phase = "IDLE" /\ (e.magForceDisable => UseMag)
  <2> HIDE DEF m, e
  <2> QED BY <1>1 DEF RescueStates, Failures, m
<1>3. Ended(in) = e
  BY DEF Ended
<1> HIDE DEF e
<1> QED
  BY <1>2, <1>3 DEF FailingOK, AwayOK, FailingAfter, AwayAfter, Farther, Over

(* A pass that starts a rescue. *)
LEMMA StartKeeps ==
    ASSUME RescueInv, Starts, NEW in, Readable(in)
    PROVE  /\ Ended(in) \in RescueStates
           /\ FailingOK(Ended(in), FailingAfter(Ended(in)))
           /\ AwayOK(Ended(in), AwayAfter(Ended(in), in))
           /\ rescueState.failure # "HEALTHY" => Ended(in).phase \in Over
<1> DEFINE b == Begun(in)
           m == Moved(b, in)
           e == SanityChecked(m, in)
<1>1. /\ rescueState \in RescueStates /\ (rescueState.magForceDisable => UseMag)
      /\ rescueState.phase = "IDLE"
  BY DEF RescueInv, RescueTypeOK, AwayOK, Starts
<1>2. /\ b \in RescueStates /\ b.phase \in {"INITIALIZE"} \cup Over
      /\ b.phase # "IDLE" => b.secondsDoingNothing = 0
      /\ b.phase = "DO_NOTHING" => b.failure # "HEALTHY"
      /\ rescueState.failure # "HEALTHY" => b.phase \in Over
      /\ b.magForceDisable => UseMag
  BY <1>1, BegunNew
<1> HIDE DEF b
<1>3. CASE b.phase = "IDLE"
  <2>1. m = b
    BY <1>2, <1>3, MovedIdle
  <2> QED BY <1>2, <1>3, <2>1, IdlePassKeeps DEF b, Over
<1>4. CASE b.phase # "IDLE"
  <2>1. /\ m \in RescueStates
        /\ b.phase = "INITIALIZE" =>
              /\ m.phase \in {"INITIALIZE", "ATTAIN_ALT", "ABORT"}
              /\ m.phase = "INITIALIZE" => m.failure # "HEALTHY"
        /\ b.phase # "INITIALIZE" => m.failure = b.failure
        /\ b.phase = "DO_NOTHING" => m.phase \in {"DO_NOTHING", "IDLE"}
        /\ b.phase = "ABORT" => m.phase = "IDLE"
        /\ m.magForceDisable => UseMag
        /\ m.secondsDoingNothing = 0
    BY <1>2, <1>4, MovedFields
  <2> HIDE DEF m
  <2>2. CASE m.phase = "IDLE"
    BY <1>2, <2>1, <2>2, IdlePassKeeps DEF b, m, Over
  <2>3. CASE m.phase # "IDLE"
    <3>1. /\ e \in RescueStates
          /\ m.failure # "HEALTHY" => e.phase \in Over /\ e.failure # "HEALTHY"
          /\ m.failure = "HEALTHY" /\ m.phase \in AltitudePhases =>
                e.phase \in {m.phase, "LANDING", "ABORT", "IDLE"}
          /\ m.failure = "HEALTHY"
               /\ m.phase \notin AltitudePhases \cup {"DO_NOTHING"} =>
                e.phase \in {m.phase, "IDLE"}
          /\ e.phase \notin Over => e.secondsDoingNothing = NothingSoFar(m)
          /\ e.phase = "DO_NOTHING" /\ NothingSoFar(m) < NothingLimit =>
                /\ e.secondsDoingNothing < NothingLimit
                /\ e.secondsDoingNothing = NothingSoFar(m) + (IF Slow THEN 1 ELSE 0)
      BY <2>1, <2>3, SanityFields
    <3>2. NothingSoFar(m) = 0 /\ ~Slow
      BY <2>1 DEF NothingSoFar, Slow
    <3>3. e.magForceDisable => UseMag
      BY <2>1, <2>3, SanityFields
    <3>4. m.phase \in {"INITIALIZE", "ATTAIN_ALT", "ABORT", "DO_NOTHING"}
      BY <1>2, <1>4, <2>1, <2>3 DEF Over
    <3>5. m.phase \in {"INITIALIZE", "DO_NOTHING"} => m.failure # "HEALTHY"
      BY <1>2, <1>4, <2>1, <3>4 DEF Over
    <3>6. /\ e.phase \in {"ATTAIN_ALT", "LANDING"} \cup Over
          /\ e.phase = "DO_NOTHING" => e.failure # "HEALTHY"
      BY <3>1, <3>4, <3>5 DEF AltitudePhases, Over
    <3>7. rescueState.failure # "HEALTHY" => e.phase \in Over
      <4>1. SUFFICES ASSUME rescueState.failure # "HEALTHY" PROVE e.phase \in Over
        OBVIOUS
      <4>2. b.phase = "DO_NOTHING"
        BY <1>2, <1>4, <2>1, <2>3, <4>1 DEF Over
      <4> QED BY <1>2, <2>1, <2>3, <3>1, <4>2
    <3>8. FailingAfter(e) = 0 /\ AwayAfter(e, in) = 0
      BY <1>1, <3>6 DEF FailingAfter, AwayAfter, Farther, Over
    <3>9. Ended(in) = e
      BY DEF Ended, b, m
    <3> HIDE DEF e
    <3>10. FailingOK(e, 0)
      BY <3>1, <3>2, <3>6, Limits DEF FailingOK, Over
    <3>11. AwayOK(e, 0)
      BY <3>3, <3>6 DEF AwayOK, Over
    <3> QED BY <3>1, <3>7, <3>8, <3>9, <3>10, <3>11
  <2> QED BY <2>2, <2>3
<1> QED
  BY <1>3, <1>4

(* A pass that goes on with a rescue. *)
LEMMA GoOnKeeps ==
    ASSUME RescueInv, RescueMode, ~Starts, NEW in, Readable(in)
    PROVE  /\ Ended(in) \in RescueStates
           /\ FailingOK(Ended(in), FailingAfter(Ended(in)))
           /\ AwayOK(Ended(in), AwayAfter(Ended(in), in))
           /\ rescueState.failure # "HEALTHY" => Ended(in).phase \in Over
<1> DEFINE r == rescueState
           b == Begun(in)
           m == Moved(b, in)
           e == SanityChecked(m, in)
<1>1. /\ r \in RescueStates /\ (r.magForceDisable => UseMag)
      /\ r.phase # "IDLE" /\ r.phase # "INITIALIZE"
      /\ FailingOK(r, failing) /\ AwayOK(r, away)
      /\ failing \in Nat /\ away \in Nat
  BY DEF RescueInv, RescueTypeOK, AwayOK, FailingOK, Starts
<1>2. /\ b \in RescueStates /\ b.phase = r.phase /\ b.failure = r.failure
      /\ b.secondsFailing = r.secondsFailing
      /\ b.magForceDisable = r.magForceDisable
      /\ b.secondsDoingNothing = r.secondsDoingNothing
  BY <1>1, BegunOld
<1> HIDE DEF b
<1>3. /\ m \in RescueStates /\ m.failure = r.failure
      /\ r.phase = "DO_NOTHING" => m.phase \in {"DO_NOTHING", "IDLE"}
      /\ r.phase = "ABORT" => m.phase = "IDLE"
      /\ r.phase \notin Over =>
            m.phase \notin {"INITIALIZE", "DO_NOTHING", "ABORT"}
      /\ m.magForceDisable = r.magForceDisable
      /\ m.secondsDoingNothing = r.secondsDoingNothing
      /\ m.phase = "FLY_HOME" =>
            \/ r.phase = "FLY_HOME" /\ m.secondsFailing = r.secondsFailing
            \/ r.phase = "ROTATE" /\ m.secondsFailing = 0
  BY <1>1, <1>2, MovedFields
<1> HIDE DEF m
<1>4. CASE m.phase = "IDLE"
  BY <1>1, <1>2, <1>3, <1>4, IdlePassKeeps DEF b, m, Over
<1>5. CASE m.phase # "IDLE"
  <2>1. /\ e \in RescueStates
        /\ e.magForceDisable => m.magForceDisable \/ UseMag
        /\ m.failure # "HEALTHY" => e.phase \in Over /\ e.failure # "HEALTHY"
        /\ m.failure = "HEALTHY" /\ m.phase \in AltitudePhases =>
              e.phase \in {m.phase, "LANDING", "ABORT", "IDLE"}
        /\ m.failure = "HEALTHY"
             /\ m.phase \notin AltitudePhases \cup {"DO_NOTHING"} =>
              e.phase \in {m.phase, "IDLE"}
        /\ e.phase \notin Over => e.secondsDoingNothing = NothingSoFar(m)
        /\ e.phase = "DO_NOTHING" /\ NothingSoFar(m) < NothingLimit =>
              /\ e.secondsDoingNothing < NothingLimit
              /\ e.secondsDoingNothing = NothingSoFar(m) + (IF Slow THEN 1 ELSE 0)
        /\ m.phase = "FLY_HOME" /\ e.phase = "FLY_HOME"
             /\ e.failure = "HEALTHY" /\ m.secondsFailing < FlyawayLimit =>
              IF Slow THEN FlightGoesOn(m, e, in)
              ELSE /\ e.secondsFailing = m.secondsFailing
                   /\ e.magForceDisable = m.magForceDisable
    BY <1>3, <1>5, SanityFields
  <2> HIDE DEF e
  <2>2. Ended(in) = e
    BY DEF Ended, b, m, e
  <2>3. m.phase # "INITIALIZE" /\ NothingSoFar(m) = r.secondsDoingNothing
    BY <1>1, <1>3, <1>5 DEF Over, NothingSoFar
  <2>4. Slow = checkDue /\ (checkDue \in BOOLEAN)
    BY DEF Slow, RescueInv, RescueTypeOK
  <2>5. r.failure # "HEALTHY" => e.phase \in Over
    BY <1>3, <2>1
  <2>6. e.phase # "INITIALIZE" /\ (e.phase = "DO_NOTHING" => m.failure # "HEALTHY" /\ e.failure # "HEALTHY")
    <3>1. m.phase = "DO_NOTHING" => m.failure # "HEALTHY"
      BY <1>1, <1>3, <1>5 DEF FailingOK, Over
    <3> QED BY <1>3, <2>1, <2>3, <3>1 DEF AltitudePhases, Over
  <2>7. r.phase \notin {"IDLE", "ABORT"}
    BY <1>1, <1>3, <1>5
  <2>8. FailingOK(e, FailingAfter(e))
    <3>1. CASE e.phase = "IDLE"
      BY <3>1 DEF FailingOK, FailingAfter, Over
    <3>2. CASE e.phase # "IDLE" /\ r.phase = "DO_NOTHING"
      <4>1. /\ r.failure # "HEALTHY" /\ failing <= r.secondsDoingNothing
            /\ r.secondsDoingNothing < NothingLimit
            /\ r.secondsDoingNothing \in Nat
        BY <1>1, <3>2, Limits DEF FailingOK, RescueStates
      <4>2. FailingAfter(e) = failing + (IF Slow THEN 1 ELSE 0)
        BY <1>1, <2>4, <3>2, <4>1 DEF FailingAfter, Slow
      <4>3. FailingAfter(e) <= NothingLimit /\ FailingAfter(e) \in Nat
        BY <1>1, <4>1, <4>2, Limits
      <4>4. e.phase = "DO_NOTHING" => FailingAfter(e) <= e.secondsDoingNothing
        BY <1>1, <2>1, <2>3, <4>1, <4>2
      <4> QED
        <5>1. e.phase \in {"DO_NOTHING", "ABORT"}
          BY <2>5, <3>2, <4>1 DEF Over
        <5>2. e.phase = "DO_NOTHING" => e.secondsDoingNothing < NothingLimit
          BY <2>1, <2>3, <4>1
        <5> QED BY <2>6, <4>3, <4>4, <5>1, <5>2 DEF FailingOK, Over
    <3>3. CASE e.phase # "IDLE" /\ r.phase \notin Over
      <4>1. failing = 0 /\ r.secondsDoingNothing = 0
        BY <1>1, <3>3 DEF FailingOK
      <4>2. /\ FailingAfter(e) \in {0, 1}
            /\ FailingAfter(e) = 1 => Slow /\ r.failure # "HEALTHY"
        BY <2>4, <3>3, <4>1 DEF FailingAfter, Slow
      <4>3. e.phase = "DO_NOTHING" => /\ FailingAfter(e) <= e.secondsDoingNothing
                                      /\ e.secondsDoingNothing < NothingLimit
        BY <2>1, <2>3, <4>1, <4>2, Limits
      <4>4. e.phase \notin Over => FailingAfter(e) = 0 /\ e.secondsDoingNothing = 0
        BY <2>1, <2>3, <2>5, <4>1, <4>2
      <4>5. FailingAfter(e) <= NothingLimit /\ FailingAfter(e) \in Nat
        BY <4>2, Limits
      <4> QED
        BY <2>6, <3>3, <4>3, <4>4, <4>5 DEF FailingOK
    <3> QED BY <2>7, <3>1, <3>2, <3>3 DEF Over
  <2>9. AwayOK(e, AwayAfter(e, in))
    <3>1. e.magForceDisable => UseMag
      BY <1>1, <1>3, <2>1
    <3>2. CASE e.phase # "FLY_HOME"
      <4>1. AwayAfter(e, in) = 0
        BY <3>2 DEF AwayAfter, Farther
      <4> QED BY <3>1, <3>2, <4>1 DEF AwayOK
    <3>3. CASE e.phase = "FLY_HOME" /\ r.phase # "FLY_HOME"
      <4>1. away = 0 /\ AwayAfter(e, in) = 0
        BY <1>1, <3>3 DEF AwayOK, AwayAfter, Farther
      <4>2. m.failure = "HEALTHY"
        BY <1>3, <2>5, <3>3 DEF Over
      <4>3. m.phase = "FLY_HOME"
        <5>1. m.phase # "DO_NOTHING"
          BY <1>1, <1>3, <1>5, <2>3, <4>2 DEF FailingOK, Over
        <5> QED BY <2>1, <3>3, <4>2, <5>1 DEF AltitudePhases
      <4>4. m.secondsFailing = 0
        BY <1>3, <3>3, <4>3
      <4>5. e.failure = "HEALTHY" => e.secondsFailing < FlyawayLimit
        BY <2>1, <3>3, <4>3, <4>4, Limits DEF FlightGoesOn
      <4>6. e.secondsFailing \in Nat
        BY <2>1, Limits DEF RescueStates
      <4>7. 0 <= e.secondsFailing + (IF e.magForceDisable THEN FlyawayLimit ELSE 0)
        BY <4>6, Limits
      <4> QED BY <3>1, <3>3, <4>1, <4>5, <4>7 DEF AwayOK
    <3>4. CASE e.phase = "FLY_HOME" /\ r.phase = "FLY_HOME"
      <4>1. m.failure = "HEALTHY"
        BY <1>3, <2>5, <3>4 DEF Over
      <4>2. m.phase = "FLY_HOME" /\ m.secondsFailing = r.secondsFailing
        <5>1. m.phase = "FLY_HOME"
          BY <1>3, <2>1, <2>3, <3>4, <4>1 DEF AltitudePhases, Over
        <5> QED BY <1>3, <3>4, <5>1
      <4>3. /\ r.secondsFailing < FlyawayLimit /\ r.secondsFailing \in Nat
            /\ away <= r.secondsFailing + (IF r.magForceDisable THEN FlyawayLimit ELSE 0)
        BY <1>1, <1>3, <3>4, <4>1, Limits DEF AwayOK, RescueStates
      <4>4. /\ e.secondsFailing \in Nat
            /\ r.magForceDisable \in BOOLEAN /\ e.magForceDisable \in BOOLEAN
        BY <1>1, <2>1, Limits DEF RescueStates
      <4>5. CASE e.failure # "HEALTHY"
        <5>1. AwayAfter(e, in) \in Nat
          BY <1>1 DEF AwayAfter
        <5> QED BY <3>1, <3>4, <4>5, <5>1 DEF AwayOK
      <4>6. CASE e.failure = "HEALTHY" /\ ~checkDue
        <5>1. AwayAfter(e, in) = away
          BY <3>4, <4>6 DEF AwayAfter, Farther
        <5>2. e.secondsFailing = r.secondsFailing /\ e.magForceDisable = r.magForceDisable
          BY <1>3, <2>1, <3>4, <4>2, <4>3, <4>6 DEF Slow
        <5> QED BY <1>1, <3>1, <3>4, <4>3, <5>1, <5>2 DEF AwayOK
      <4>7. CASE e.failure = "HEALTHY" /\ checkDue
        <5>1. FlightGoesOn(m, e, in)
          BY <2>1, <2>4, <3>4, <4>2, <4>3, <4>7
        <5>2. CASE in.progress
          <6>1. AwayAfter(e, in) = 0
            BY <4>7, <5>2 DEF AwayAfter, Farther
          <6>2. 0 <= e.secondsFailing + (IF e.magForceDisable THEN FlyawayLimit ELSE 0)
            BY <4>4, Limits
          <6>3. e.secondsFailing < FlyawayLimit
            BY <5>1 DEF FlightGoesOn
          <6> QED BY <3>1, <3>4, <6>1, <6>2, <6>3 DEF AwayOK
        <5>3. CASE ~in.progress
          <6>1. AwayAfter(e, in) = away + 1 /\ away + 1 \in Nat
            BY <1>1, <3>4, <4>7, <5>3 DEF AwayAfter, Farther
          <6>2. /\ e.secondsFailing < FlyawayLimit
                /\ away + 1 <= e.secondsFailing
                                 + (IF e.magForceDisable THEN FlyawayLimit ELSE 0)
            BY <1>1, <1>3, <4>2, <4>3, <4>4, <5>1, <5>3, Limits DEF FlightGoesOn
          <6> QED BY <3>1, <3>4, <6>1, <6>2 DEF AwayOK
        <5> QED BY <5>2, <5>3
      <4> QED BY <4>5, <4>6, <4>7
    <3> QED BY <3>2, <3>3, <3>4
  <2> QED BY <2>1, <2>2, <2>5, <2>8, <2>9
<1> QED
  BY <1>4, <1>5

-----------------------------------------------------------------------------
(* The steps. *)

(* A pass, whatever it finds; a rescue that is given up is idle.            *)
LEMMA EndedKeeps ==
    ASSUME RescueInv, NEW in, Readable(in)
    PROVE  /\ Ended(in) \in RescueStates
           /\ FailingOK(Ended(in), FailingAfter(Ended(in)))
           /\ AwayOK(Ended(in), AwayAfter(Ended(in), in))
           /\ rescueState.failure # "HEALTHY" => Ended(in).phase \in Over
<1>1. CASE ~RescueMode
  <2> DEFINE b == Begun(in)
  <2>1. rescueState \in RescueStates /\ (rescueState.magForceDisable => UseMag)
    BY DEF RescueInv, RescueTypeOK, AwayOK
  <2>2. /\ b \in RescueStates /\ b.phase = "IDLE"
        /\ b.magForceDisable => UseMag
    BY <1>1, <2>1, BegunNone
  <2>3. Moved(b, in) = b
    <3> HIDE DEF b
    <3> QED BY <2>2, MovedIdle
  <2> QED BY <2>2, <2>3, IdlePassKeeps DEF Over
<1>2. CASE Starts
  BY <1>2, StartKeeps
<1>3. CASE RescueMode /\ ~Starts
  BY <1>3, GoOnKeeps
<1> QED BY <1>1, <1>2, <1>3

LEMMA InitInv == RescueSystemInit => RescueInv
<1> SUFFICES ASSUME RescueSystemInit PROVE RescueInv
  OBVIOUS
<1>1. RuntimeTypeOK
  BY DEF RescueSystemInit, RuntimeTypeOK
<1>2. rescueState \in RescueStates
  BY Limits DEF RescueSystemInit, RescueInit, RescueStates, Phases, Failures
<1>3. /\ rescueState.phase = "IDLE" /\ rescueState.magForceDisable = FALSE
      /\ failing = 0 /\ away = 0
  BY DEF RescueSystemInit, RescueInit
<1>4. RescueTypeOK
  <2>1. stuck \in BOOLEAN /\ checkDue \in BOOLEAN /\ taskRan \in BOOLEAN
    BY Zenon DEF RescueSystemInit
  <2> QED BY <1>1, <1>2, <1>3, <2>1 DEF RescueTypeOK
<1>5. FailingOK(rescueState, failing) /\ AwayOK(rescueState, away)
  BY <1>3 DEF FailingOK, AwayOK, Over
<1> QED BY <1>4, <1>5 DEF RescueInv

LEMMA PassKeeps ==
    ASSUME RescueInv, RescuePass
    PROVE  /\ RescueInv'
           /\ rescueState.failure # "HEALTHY" => rescueState'.phase \in Over
<1>1. PICK in \in Readings : gpsRescueUpdate(in)
  BY DEF RescuePass
<1> DEFINE e == Ended(in)
           s == [e EXCEPT !.disarms = FALSE]
<1>2. /\ e \in RescueStates
      /\ FailingOK(e, FailingAfter(e)) /\ AwayOK(e, AwayAfter(e, in))
      /\ rescueState.failure # "HEALTHY" => e.phase \in Over
  BY ReadingsAreReadable, EndedKeeps
<1>3. /\ rescueState' = s
      /\ checkDue' \in BOOLEAN
      /\ armed' = (armed /\ ~e.disarms)
      /\ armingDisableFlags' = armingDisableFlags \cup
                                  (IF e.disarms THEN {"ARM_SWITCH"} ELSE {})
      /\ taskRan' = TRUE
      /\ flightModeFlags' = flightModeFlags /\ rcModes' = rcModes
      /\ stuck' = stuck
  BY <1>1 DEF gpsRescueUpdate, Ended, Begun
<1>4. /\ failing' =
            IF Starts \/ rescueState'.phase = "IDLE" THEN 0
            ELSE IF rescueState.failure # "HEALTHY" /\ checkDue THEN failing + 1
            ELSE failing
      /\ away' =
            IF NotCloser(in) THEN away + 1
            ELSE IF rescueState'.phase = "FLY_HOME" /\ ~checkDue THEN away
            ELSE 0
  BY <1>1 DEF gpsRescueUpdate
<1> HIDE DEF e
<1>5. /\ s \in RescueStates /\ s.phase = e.phase /\ s.failure = e.failure
      /\ s.secondsFailing = e.secondsFailing
      /\ s.secondsDoingNothing = e.secondsDoingNothing
      /\ s.magForceDisable = e.magForceDisable
  BY <1>2 DEF RescueStates
<1> HIDE DEF s
<1>6. failing' = FailingAfter(e) /\ away' = AwayAfter(e, in)
  BY <1>3, <1>4, <1>5 DEF NotCloser, FailingAfter, AwayAfter, Farther
<1>7. FailingOK(s, FailingAfter(e)) /\ AwayOK(s, AwayAfter(e, in))
  BY <1>2, <1>5 DEF FailingOK, AwayOK
<1>8. FailingOK(rescueState, failing)' /\ AwayOK(rescueState, away)'
  BY <1>3, <1>6, <1>7 DEF FailingOK, AwayOK
<1>9. RuntimeTypeOK'
  <2>1. armed' \in BOOLEAN
    BY <1>3, Zenon
  <2>2. armingDisableFlags' \subseteq ArmingDisableFlags
    BY <1>3 DEF RescueInv, RescueTypeOK, RuntimeTypeOK, ArmingDisableFlags
  <2> QED BY <1>3, <2>1, <2>2 DEF RescueInv, RescueTypeOK, RuntimeTypeOK
<1>10. RescueTypeOK'
  BY <1>3, <1>5, <1>8, <1>9 DEF RescueTypeOK, RescueInv, FailingOK, AwayOK
<1> QED BY <1>2, <1>3, <1>5, <1>8, <1>10 DEF RescueInv

(* Nobody else touches the state of the rescue.                             *)
LEMMA OthersKeep ==
    ASSUME RescueInv,
           \/ SelectRescue \/ Arm \/ Disarm \/ ArmSwitchOff
           \/ CraftMoves \/ SecondOver \/ UNCHANGED rescueSystemVars
    PROVE  RescueInv' /\ rescueState' = rescueState
<1>1. /\ rescueState' = rescueState /\ failing' = failing /\ away' = away
  BY DEF SelectRescue, Arm, Disarm, ArmSwitchOff, CraftMoves, SecondOver,
         rescueSystemVars, rescueVars
<1>2. /\ armed' \in BOOLEAN /\ stuck' \in BOOLEAN
      /\ checkDue' \in BOOLEAN /\ taskRan' \in BOOLEAN
  BY Zenon DEF RescueInv, RescueTypeOK, RuntimeTypeOK, SelectRescue, Arm,
         Disarm, ArmSwitchOff, CraftMoves, SecondOver,
         rescueSystemVars, rescueVars, runtimeVars
<1>3. /\ armingDisableFlags' \subseteq ArmingDisableFlags
      /\ flightModeFlags' \subseteq FlightModes /\ rcModes' \subseteq Boxes
  BY DEF RescueInv, RescueTypeOK, RuntimeTypeOK, FlightModes, SelectRescue,
         Arm, Disarm, ArmSwitchOff, CraftMoves, SecondOver,
         rescueSystemVars, rescueVars, runtimeVars
<1>4. RescueTypeOK'
  BY <1>1, <1>2, <1>3 DEF RescueInv, RescueTypeOK, RuntimeTypeOK
<1>5. FailingOK(rescueState, failing)' /\ AwayOK(rescueState, away)'
  BY <1>1 DEF RescueInv, FailingOK, AwayOK
<1> QED BY <1>1, <1>4, <1>5 DEF RescueInv

LEMMA InvStep == RescueInv /\ [RescueNext]_rescueSystemVars => RescueInv'
<1> SUFFICES ASSUME RescueInv, [RescueNext]_rescueSystemVars PROVE RescueInv'
  OBVIOUS
<1>1. CASE RescuePass
  BY <1>1, PassKeeps
<1>2. CASE ~RescuePass
  BY <1>2, OthersKeep DEF RescueNext
<1> QED BY <1>1, <1>2

LEMMA InvAlways == RescueSpec => []RescueInv
BY InitInv, InvStep, PTL DEF RescueSpec

-----------------------------------------------------------------------------
(* The theorems. *)

(* The type invariant: the counters of the rescue never leave their ranges. *)
THEOREM RescueTypeCorrect == RescueSpec => []RescueTypeOK
<1>1. RescueInv => RescueTypeOK
  BY DEF RescueInv
<1> QED BY <1>1, InvAlways, PTL

(* A failed rescue ends within the time it may do nothing, whatever the     *)
(* limits and the settings are.                                             *)
THEOREM FailureEnds == RescueSpec => []FailureEndsInTime
<1>1. RescueInv => FailureEndsInTime
  <2> SUFFICES ASSUME RescueInv PROVE failing <= NothingLimit
    BY DEF FailureEndsInTime
  <2>1. FailingOK(rescueState, failing) /\ rescueState \in RescueStates
    BY DEF RescueInv, RescueTypeOK
  <2>2. CASE rescueState.phase = "DO_NOTHING"
    BY <2>1, <2>2, Limits DEF FailingOK, RescueStates
  <2>3. CASE rescueState.phase = "ABORT"
    BY <2>1, <2>3 DEF FailingOK
  <2>4. CASE rescueState.phase \notin {"DO_NOTHING", "ABORT"}
    BY <2>1, <2>4, Limits DEF FailingOK, Over
  <2> QED BY <2>2, <2>3, <2>4
<1> QED BY <1>1, InvAlways, PTL

(* A flight that never comes closer to home is noticed, after at most one   *)
(* more try.                                                                *)
THEOREM FlyawayNoticed == RescueSpec => []FlyawayIsNoticed
<1>1. RescueInv => FlyawayIsNoticed
  <2> SUFFICES ASSUME RescueInv, rescueState.failure = "HEALTHY"
               PROVE  ~(away >= FlyawayLimit + (IF UseMag THEN FlyawayLimit ELSE 0))
    BY DEF FlyawayIsNoticed
  <2>1. AwayOK(rescueState, away) /\ rescueState \in RescueStates /\ away \in Nat
    BY DEF RescueInv, RescueTypeOK
  <2>2. CASE rescueState.phase # "FLY_HOME"
    BY <2>1, <2>2, Limits DEF AwayOK
  <2>3. CASE rescueState.phase = "FLY_HOME"
    <3>1. /\ rescueState.secondsFailing \in Nat
          /\ rescueState.secondsFailing < FlyawayLimit
          /\ away <= rescueState.secondsFailing
                       + (IF rescueState.magForceDisable THEN FlyawayLimit ELSE 0)
          /\ rescueState.magForceDisable => UseMag
      BY <2>1, <2>3, Limits DEF AwayOK, RescueStates
    <3>2. CASE rescueState.magForceDisable
      <4>1. UseMag /\ away <= rescueState.secondsFailing + FlyawayLimit
        BY <3>1, <3>2
      <4> QED BY <2>1, <3>1, <4>1, Limits
    <3>3. CASE ~rescueState.magForceDisable
      <4>1. away <= rescueState.secondsFailing
        BY <2>1, <3>1, <3>3
      <4> QED BY <2>1, <3>1, <4>1, Limits
    <3> QED BY <3>2, <3>3
  <2> QED BY <2>2, <2>3
<1> QED BY <1>1, InvAlways, PTL

(* A rescue that has failed does nothing, disarms or is over: no pass makes *)
(* it fly again.                                                            *)
THEOREM FailedStays == RescueSpec => FailedRescueStaysFailed
<1> DEFINE Stays == rescueState.failure # "HEALTHY" /\ rescueState' # rescueState =>
                        rescueState'.phase \in {"DO_NOTHING", "ABORT", "IDLE"}
<1>1. RescueInv /\ [RescueNext]_rescueSystemVars => [Stays]_rescueSystemVars
  <2> SUFFICES ASSUME RescueInv, [RescueNext]_rescueSystemVars PROVE Stays
    OBVIOUS
  <2>1. CASE RescuePass
    BY <2>1, PassKeeps DEF Over
  <2>2. CASE ~RescuePass
    BY <2>2, OthersKeep DEF RescueNext
  <2> QED BY <2>1, <2>2
<1>2. [][Stays]_rescueSystemVars => FailedRescueStaysFailed
  BY PTL DEF FailedRescueStaysFailed
<1> QED BY <1>1, <1>2, InvAlways, PTL DEF RescueSpec
=============================================================================
