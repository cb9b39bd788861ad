------------------------------ MODULE MCSerial ------------------------------
(* Small instances for TLC of the serial port and of the task that listens   *)
(* to it.  They share neither variables nor steps here, so they are checked  *)
(* one at a time: HUARTTransmit in the behaviours where part is "transmit",  *)
(* HUARTReceive where it is "receive", Interactive where it is "keys".       *)
EXTENDS HUARTTransmit

CONSTANTS x, y, Connected, KEYS, Nobody
TwoBytes == {x, y}

VARIABLES part, rxBuffer, rxHead, rxTail, rxUDR, arrivals, rxPC, rxC,
          told, stored, fetched,
          table, todo, asleep, current_task, holder, typed, keys

rvars == <<rxBuffer, rxHead, rxTail, rxUDR, arrivals, rxPC, rxC, told, stored, fetched>>
avars == <<table, todo, asleep, current_task, holder, typed, keys>>

R == INSTANCE HUARTReceive WITH
       buffer <- rxBuffer, head <- rxHead, tail <- rxTail, UDR <- rxUDR,
       pc <- rxPC, c <- rxC

A == INSTANCE Interactive WITH MAX_TASKS <- 3

\* No slot of the kernel is taken: every step of Interactive stutters.
AtRest ==
  /\ table = [s \in A!Slots |-> Nobody] /\ todo = [s \in A!Slots |-> <<>>]
  /\ asleep = {} /\ current_task = A!Idle
  /\ holder = [r \in A!Locks |-> Nobody] /\ typed = Nobody /\ keys = 0

MCInit ==
  /\ Init /\ R!Init
  /\ \/ part \in {"transmit", "receive"} /\ AtRest
     \/ part = "keys" /\ A!Init

Transmit == part = "transmit" /\ Next /\ UNCHANGED <<part, rvars, avars>>
Receive  == part = "receive" /\ R!Next /\ UNCHANGED <<part, vars, avars>>
Keys     == part = "keys" /\ A!Next /\ UNCHANGED <<part, vars, rvars>>

MCNext == Transmit \/ Receive \/ Keys

MCSpec ==
  /\ MCInit /\ [][MCNext]_<<part, vars, rvars, avars>>
  /\ Fairness /\ A!Fairness  \* which ask for nothing where their part is at rest
  /\ WF_rvars(R!RXISR) /\ SF_rvars(part = "receive" /\ R!AvailableCall) /\ WF_rvars(R!Read)

\* The properties of HUARTReceive and of Interactive, and those of both halves.
ReceiveInOrder    == R!ReceiveInOrder
ToldTheTruth      == R!ToldTheTruth
ReceiverDrained   == part = "receive" => R!ReceiverDrained
BothTypesOK       == TypeOK /\ R!TypeOK
ComesRound        == part = "keys" => A!ComesRound
=============================================================================
