------------------------------- MODULE MCTime -------------------------------
(* Small instances for TLC of what depends on time: how long a sleep lasts,  *)
(* SystemSleep, in the behaviours where part is "sleep"; the clock that      *)
(* tasks read, Timer, where it is "clock"; and what NFCtask() makes of its   *)
(* sleeps, Startup, where it is "startup".                                   *)
EXTENDS SystemSleep

CONSTANTS
  a, b, main, none,
  CLOCK_BYTE, CLOCK_WIDTH,  \* of the counter of Timer
  SLOTS, INTERVAL, NUM_PORTS, LIGHTING, PRINTING, POLLS, TOLERATED,  \* of Startup
  CONNECTED,                \* the sets of faces that are tried
  FAULTS                    \* and how many faulty chips they have at most

ASSUME ClockAssumption == CLOCK_BYTE \in Nat \ {0} /\ CLOCK_WIDTH \in Nat \ {0}

TwoJobs   == {a, b}
Scheduler == {a}
FewOrAll  == {{}, {2, 5}, 1 .. NUM_PORTS}

VARIABLES
  part,
  m_unTimerMilliseconds, I, reader, oldSREG, bytes, loaded, seen,
  stage, todo, pause, m_peConnectedPorts, connected, faulty

cvars == <<m_unTimerMilliseconds, I, reader, oldSREG, bytes, loaded, seen>>
uvars == <<stage, todo, pause, m_peConnectedPorts, connected, faulty>>

C == INSTANCE Timer WITH
       BYTE <- CLOCK_BYTE, WIDTH <- CLOCK_WIDTH, pc <- reader, m <- bytes

U == INSTANCE Startup WITH
       phase <- stage, MAX_TASKS <- SLOTS, TICK_INTERVAL <- INTERVAL, NULLPORT <- 0

\* A chip that answers does so before read_dt() gives up.
ASSUME StartupAssumption ==
  /\ SLOTS \in Nat /\ SLOTS >= 3 /\ INTERVAL \in Nat \ {0} /\ NUM_PORTS \in Nat
  /\ LIGHTING \in Nat /\ PRINTING \in Nat /\ POLLS \in 0 .. 24 /\ TOLERATED \in Nat
  /\ U!SleepsSuffice

MCInit ==
  /\ part \in {"clock", "sleep", "startup"} /\ SInit /\ C!Init /\ U!Init
  /\ IF part = "startup" THEN connected \in CONNECTED ELSE connected = {}

MCNext ==
  /\ UNCHANGED part
  /\ \/ part = "sleep"   /\ SNext  /\ UNCHANGED <<cvars, uvars>>
     \/ part = "clock"   /\ C!Next /\ UNCHANGED <<svars, uvars>>
     \/ part = "startup" /\ U!Next /\ faulty' <= FAULTS /\ UNCHANGED <<svars, cvars>>

MCSpec == MCInit /\ [][MCNext]_<<part, svars, cvars, uvars>>

\* The properties of Timer and of Startup.
TimeIsTrue    == C!TimeIsTrue
StagesInOrder == U!StagesInOrder
=============================================================================
