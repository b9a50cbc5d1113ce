------------------------ MODULE ContextLifecycleProofs ------------------------
(***************************************************************************)
(* Proofs about ContextLifecycle: its types, that the listener and libjuice*)
(* use the null pointer only in transit, and that no packet is left asleep,*)
(* for any bound.                                                          *)
(***************************************************************************)
EXTENDS ContextLifecycle, TLAPS

Playing == {"online", "reading"}

(* The pointer is set exactly while Storm plays.  Where there is no context*)
(* the listener has ended or has never begun, and there is neither an agent*)
(* nor a packet; callbacks are the agent's, and only they add packets.     *)
Life ==
    /\ context <=> storm \in Playing
    /\ storm \in {"menu", "constructing"} => listener \in {"none", "ended"}
    /\ storm = "dismantling" => listener = "ended"
    /\ storm \in {"menu", "constructing", "assigning"} => ~agent /\ queue = 0
    /\ juice # "idle" => agent
    /\ juice = "checked" => queue < MaxPackets

Inv == TypeOK /\ Life /\ NullOnlyInTransit /\ NoPacketAsleep

LEMMA InitInv == Init => Inv
<1> SUFFICES ASSUME Init PROVE Inv
  OBVIOUS
<1>1. TypeOK
  <2>1. queue \in 0..MaxPackets
    BY BoundsAssumption DEF Init
  <2>2. storm \in {"menu", "constructing", "assigning", "online", "reading",
                  "stopping", "joining", "dismantling"}
    BY DEF Init
  <2>3. listener \in {"none", "polling", "received", "handling", "ended"}
    BY DEF Init
  <2> QED BY <2>1, <2>2, <2>3 DEF Init, TypeOK
<1>2. Life
  BY DEF Init, Life, Playing
<1>3. NullOnlyInTransit /\ NoPacketAsleep
  BY DEF Init, NullOnlyInTransit, NoPacketAsleep
<1> QED BY <1>1, <1>2, <1>3 DEF Inv

LEMMA StormInv == ASSUME Inv, crashed = "nobody", Storm PROVE Inv'
<1> USE BoundsAssumption
    DEF Inv, TypeOK, Life, Playing, NullOnlyInTransit, NoPacketAsleep, Changing,
        BoundsAssumption
<1>1. CASE ConstructManager
  BY <1>1 DEF ConstructManager
<1>2. CASE StartListener
  BY <1>2 DEF StartListener
<1>3. CASE AssignContext
  BY <1>3 DEF AssignContext
<1>4. CASE SpiSend
  BY <1>4 DEF SpiSend, threads
<1>5. CASE Wake
  BY <1>5 DEF Wake
<1>6. CASE SpiReceive
  BY <1>6 DEF SpiReceive, AfterStale
<1>7. CASE ResetContext
  BY <1>7 DEF ResetContext
<1>8. CASE RequestStop
  BY <1>8 DEF RequestStop
<1>9. CASE JoinListener
  BY <1>9 DEF JoinListener
<1>10. CASE DestroyManager
  <2>1. queue' \in 0..MaxPackets
    BY <1>10 DEF DestroyManager
  <2>2. TypeOK'
    BY <1>10, <2>1 DEF DestroyManager
  <2>3. Life' /\ NullOnlyInTransit' /\ NoPacketAsleep'
    BY <1>10 DEF DestroyManager
  <2> QED BY <2>2, <2>3
<1> QED BY <1>1, <1>2, <1>3, <1>4, <1>5, <1>6, <1>7, <1>8, <1>9, <1>10
        DEF Storm

LEMMA ListenerInv == ASSUME Inv, crashed = "nobody", Listener PROVE Inv'
<1> USE DEF Inv, TypeOK, Life, Playing, NullOnlyInTransit, NoPacketAsleep,
            Changing
<1>1. CASE Receive
  BY <1>1 DEF Receive
<1>2. CASE EnterHandler
  BY <1>2 DEF EnterHandler
<1>3. CASE Handle
  <2>1. agent' \in BOOLEAN /\ (juice # "idle" => agent')
    BY <1>3 DEF Handle
  <2>2. TypeOK'
    BY <1>3, <2>1 DEF Handle
  <2>3. Life' /\ NullOnlyInTransit' /\ NoPacketAsleep'
    BY <1>3, <2>1 DEF Handle
  <2> QED BY <2>2, <2>3
<1>4. CASE HandlerCrashes
  BY <1>4 DEF HandlerCrashes, Crash, threads
<1> QED BY <1>1, <1>2, <1>3, <1>4 DEF Listener

LEMMA JuiceInv == ASSUME Inv, crashed = "nobody", Juice PROVE Inv'
<1> USE BoundsAssumption
    DEF Inv, TypeOK, Life, Playing, NullOnlyInTransit, NoPacketAsleep, Changing,
        BoundsAssumption
<1>1. CASE Callback
  BY <1>1 DEF Callback
<1>2. CASE Answer
  BY <1>2 DEF Answer
<1>3. CASE EnqueuePacket
  BY <1>3 DEF EnqueuePacket
<1>4. CASE Signal
  BY <1>4 DEF Signal
<1>5. CASE CallbackCrashes
  BY <1>5 DEF CallbackCrashes, Crash, threads
<1> QED BY <1>1, <1>2, <1>3, <1>4, <1>5 DEF Juice

LEMMA ExportInv == ASSUME Inv, crashed = "nobody", Export PROVE Inv'
<1>1. crashed' = "front end" /\ UNCHANGED <<context, stop, agent, event>>
  BY DEF Export, Crash
<1>2. UNCHANGED <<storm, listener, juice, queue>>
  BY DEF Export, Crash, threads
<1>3. TypeOK'
  BY <1>1, <1>2 DEF Inv, TypeOK
<1>4. Life'
  BY <1>1, <1>2 DEF Inv, Life, Playing
<1>5. NullOnlyInTransit' /\ NoPacketAsleep'
  BY <1>1, <1>2 DEF Inv, NullOnlyInTransit, NoPacketAsleep
<1> QED BY <1>3, <1>4, <1>5 DEF Inv

(* The inductive invariant of ContextLifecycle.                            *)
THEOREM ContextInvariant == Spec => []Inv
<1>1. Inv /\ [Next]_vars => Inv'
  <2>1. ASSUME Inv, UNCHANGED vars PROVE Inv'
    <3>1. TypeOK'
      <4>1. UNCHANGED <<storm, listener, juice, context, stop, agent,
                        queue, event, crashed>>
        BY <2>1 DEF vars, threads
      <4>2. queue' \in 0..MaxPackets /\ juice' = juice /\ crashed' = crashed
        BY <2>1, <4>1 DEF Inv, TypeOK
      <4>3. context' \in BOOLEAN /\ stop' \in BOOLEAN
            /\ agent' \in BOOLEAN /\ event' \in BOOLEAN
        BY <2>1, <4>1 DEF Inv, TypeOK
      <4> QED BY <2>1, <4>1, <4>2, <4>3 DEF Inv, TypeOK
    <3>2. Life'
      BY <2>1 DEF vars, threads, Inv, Life, Playing
    <3>3. NullOnlyInTransit' /\ NoPacketAsleep'
      BY <2>1 DEF vars, threads, Inv, NullOnlyInTransit, NoPacketAsleep,
                  Changing
    <3> QED BY <3>1, <3>2, <3>3 DEF Inv
  <2> QED BY <2>1, StormInv, ListenerInv, JuiceInv, ExportInv DEF Next
<1> QED BY <1>1, InitInv, PTL DEF Spec

(* Everything has its type (src/snp/Globals.h, SNPModule.cpp).             *)
THEOREM TypeCorrect == Spec => []TypeOK
<1>1. Inv => TypeOK
  BY DEF Inv
<1> QED BY <1>1, ContextInvariant, PTL

(* The listener's handlers and libjuice's callbacks go through g_context   *)
(* only while there is one, or while spi_initialize or spi_destroy runs,   *)
(* whatever the front end calls.                                           *)
THEOREM UsesInTransit == Spec => []NullOnlyInTransit
<1>1. Inv => NullOnlyInTransit
  BY DEF Inv
<1> QED BY <1>1, ContextInvariant, PTL

(* Storm has been woken, or is about to be, while a packet is in           *)
(* m_receive_queue (spi_receive and on_recv).                              *)
THEOREM PacketsWakeStorm == Spec => []NoPacketAsleep
<1>1. Inv => NoPacketAsleep
  BY DEF Inv
<1> QED BY <1>1, ContextInvariant, PTL
=============================================================================
