--------------------------- MODULE ContextLifecycle ---------------------------
(***************************************************************************)
(* The life of g_context (src/snp/Globals.h): Storm makes and destroys it  *)
(* in spi_initialize and spi_destroy (SNPModule.cpp), while the listener's *)
(* handlers (CrowServeManager.cpp), libjuice's callbacks (JuiceAgent.cpp)  *)
(* and the exports of DLLMain.cpp use it without a lock.  unique_ptr's     *)
(* reset sets the pointer to null before it destroys the members, and      *)
(* make_unique constructs them before the pointer is set.                  *)
(*                                                                         *)
(* A thread that goes through the null pointer ends the program.  The      *)
(* agents are one: there is an agent, or there is none.  The thread of     *)
(* custom packets, which does not use g_context, its end and the locks are *)
(* in AgentPairs; how the listener wakes up is in ServerSocket.            *)
(* External: Storm and the front end, on any threads; the receive event,   *)
(* which resets itself; libjuice, whose callbacks run one at a time and    *)
(* hold up who calls into it.  No peer is connected before spi_initialize  *)
(* has set the event.                                                      *)
(***************************************************************************)
EXTENDS Integers

CONSTANT MaxPackets \* no packet comes while so many are in the receive queue
ASSUME BoundsAssumption == MaxPackets \in Nat

VARIABLES storm,    \* "menu", or where Storm's thread is
          context,  \* g_context is not null
          stop,     \* the listener's stop token
          listener, \* "none", "polling", "received" a message and seen no stop,
                    \* "handling" it, or "ended"
          agent,    \* there is an agent
          juice,    \* libjuice: "idle", or where its callback is
          queue,    \* how many packets are in m_receive_queue
          event,    \* Storm's receive event
          crashed   \* who has used the null pointer, or "nobody"

threads == <<storm, listener, juice>>
vars == <<threads, context, stop, agent, queue, event, crashed>>

Init ==
    /\ storm = "menu" /\ context = FALSE /\ stop = FALSE
    /\ listener = "none" /\ agent = FALSE /\ juice = "idle"
    /\ queue = 0 /\ event = FALSE /\ crashed = "nobody"

(* A thread goes through g_context.                                        *)
Crash(thread) ==
    /\ ~context
    /\ crashed' = thread
    /\ UNCHANGED <<threads, context, stop, agent, queue, event>>

-----------------------------------------------------------------------------
(* Storm.  spi_initialize: JuiceManager is constructed, then               *)
(* CrowServeManager, whose listener runs at once or cannot be started; then*)
(* the pointer is set, the event, and the status, in the instance.         *)
ConstructManager ==
    /\ storm = "menu"
    /\ storm' = "constructing"
    /\ UNCHANGED <<listener, juice, context, stop, agent, queue,
                   event, crashed>>

StartListener ==
    /\ storm = "constructing"
    /\ \/ storm' = "assigning" /\ listener' = "polling" /\ stop' = FALSE
       \/ storm' = "menu" /\ UNCHANGED <<listener, stop>>
    /\ UNCHANGED <<juice, context, agent, queue, event, crashed>>

AssignContext ==
    /\ storm = "assigning"
    /\ storm' = "online" /\ context' = TRUE
    /\ UNCHANGED <<listener, juice, stop, agent, queue, event, crashed>>

(* spi_send: ensure_agent makes an agent for a peer that has none.         *)
SpiSend ==
    /\ storm = "online"
    /\ agent' = TRUE
    /\ UNCHANGED <<threads, context, stop, queue, event, crashed>>

(* The event wakes Storm, which calls spi_receive until it returns false.  *)
(* A packet that is older than the limit is dropped, and the loop goes on. *)
(* Slips return false, or take a packet from an empty queue.               *)
Wake ==
    /\ storm = "online" /\ event
    /\ event' = FALSE /\ storm' = "reading"
    /\ UNCHANGED <<listener, juice, context, stop, agent, queue,
                   crashed>>

AfterStaleEnds == "online"
AfterStale == "reading"

ReceiveUnchecked ==
    /\ storm = "reading"
    /\ queue' = queue - 1 /\ storm' = "online"
    /\ UNCHANGED <<listener, juice, context, stop, agent, event,
                   crashed>>

SpiReceive ==
    /\ storm = "reading"
    /\ \/ queue = 0 /\ storm' = "online" /\ UNCHANGED queue
       \/ /\ queue > 0 /\ queue' = queue - 1
          /\ storm' \in {"reading", AfterStale}
    /\ UNCHANGED <<listener, juice, context, stop, agent, event,
                   crashed>>

(* spi_destroy: the pointer goes, then, in ~CrowServeManager, the listener *)
(* is told to stop and joined, and in ~JuiceManager the agents go: slips   *)
(* do not tell it, do not join it, or leave the agents.                    *)
ResetContext ==
    /\ storm = "online"
    /\ storm' = "stopping" /\ context' = FALSE
    /\ UNCHANGED <<listener, juice, stop, agent, queue, event,
                   crashed>>

LeaveToken ==
    /\ storm = "stopping"
    /\ storm' = "joining"
    /\ UNCHANGED <<listener, juice, context, stop, agent, queue,
                   event, crashed>>

RequestStop ==
    /\ storm = "stopping"
    /\ storm' = "joining" /\ stop' = TRUE
    /\ UNCHANGED <<listener, juice, context, agent, queue, event,
                   crashed>>

DetachListener ==
    /\ storm = "joining"
    /\ storm' = "dismantling"
    /\ UNCHANGED <<listener, juice, context, stop, agent, queue,
                   event, crashed>>

JoinListener ==
    /\ storm = "joining" /\ listener = "ended"
    /\ storm' = "dismantling"
    /\ UNCHANGED <<listener, juice, context, stop, agent, queue,
                   event, crashed>>

LeakManager ==
    /\ storm = "dismantling"
    /\ storm' = "menu" /\ queue' = 0
    /\ UNCHANGED <<listener, juice, context, stop, agent, event,
                   crashed>>

(* juice_destroy waits for a callback that runs.                            *)
DestroyManager ==
    /\ storm = "dismantling" /\ juice = "idle"
    /\ storm' = "menu" /\ agent' = FALSE /\ queue' = 0
    /\ UNCHANGED <<listener, juice, context, stop, event, crashed>>

Storm ==
    \/ ConstructManager \/ StartListener \/ AssignContext
    \/ SpiSend \/ Wake \/ SpiReceive
    \/ ResetContext \/ RequestStop \/ JoinListener \/ DestroyManager

-----------------------------------------------------------------------------
(* The listener receives a message, and looks for a stop before it calls   *)
(* the handler.                                                            *)
Receive ==
    /\ listener = "polling"
    /\ listener' = IF stop THEN "ended" ELSE "received"
    /\ UNCHANGED <<storm, juice, context, stop, agent, queue,
                   event, crashed>>

(* The handler goes through the pointer for the manager, and again for the *)
(* socket, when an agent is made.  juice_destroy waits for a callback.     *)
(* Messages whose handlers do without the context change nothing here.     *)
EnterHandler ==
    /\ listener = "received" /\ context
    /\ listener' = "handling"
    /\ UNCHANGED <<storm, juice, context, stop, agent, queue, event,
                   crashed>>

Handle ==
    /\ listener = "handling" /\ context
    /\ agent' \in BOOLEAN
    /\ agent /\ ~agent' => juice = "idle"
    /\ listener' = "polling"
    /\ UNCHANGED <<storm, juice, context, stop, queue, event, crashed>>

HandlerCrashes ==
    listener \in {"received", "handling"} /\ Crash("listener")

Listener == Receive \/ EnterHandler \/ Handle \/ HandlerCrashes

-----------------------------------------------------------------------------
(* libjuice's thread.  on_candidate, on_gathering_done and, for a ping,    *)
(* on_recv use the pointer as it is; for a packet of the game, on_recv     *)
(* checks it first.                                                        *)
Callback ==
    /\ juice = "idle" /\ agent
    /\ \/ juice' = "pinged"
       \/ context /\ queue < MaxPackets /\ juice' = "checked"
    /\ UNCHANGED <<storm, listener, context, stop, agent, queue,
                   event, crashed>>

(* handle_ping queues its response; the others send.                       *)
Answer ==
    /\ juice = "pinged" /\ context
    /\ juice' = "idle"
    /\ UNCHANGED <<storm, listener, context, stop, agent, queue,
                   event, crashed>>

(* The packet first, and then the event.                                   *)
EnqueuePacket ==
    /\ juice = "checked" /\ context
    /\ queue' = queue + 1 /\ juice' = "queued"
    /\ UNCHANGED <<storm, listener, context, stop, agent, event,
                   crashed>>

Signal ==
    /\ juice = "queued" /\ context
    /\ event' = TRUE /\ juice' = "idle"
    /\ UNCHANGED <<storm, listener, context, stop, agent, queue,
                   crashed>>

CallbackCrashes == juice # "idle" /\ Crash("libjuice")

Juice == Callback \/ Answer \/ EnqueuePacket \/ Signal \/ CallbackCrashes

-----------------------------------------------------------------------------
(* The front end calls iterate_lobbies, on a thread of its own: in each    *)
(* call request_advertisements goes through the pointer as it is, and on   *)
(* the first use of the instance its constructor does.  With a context the *)
(* call changes nothing here.  The other exports that ask for the instance *)
(* go through the pointer in the constructor only.                         *)
Export == Crash("front end")

Next == crashed = "nobody" /\ (Storm \/ Listener \/ Juice \/ Export)

Spec == Init /\ [][Next]_vars

(* A thread that has something to do goes on, and juice_destroy waits for  *)
(* callbacks only so long.  Nobody has to make or to destroy a context, and*)
(* no message has to come; but a listener that is told to stop wakes up    *)
(* (StopEnds of ServerSocket).                                             *)
Fairness ==
    /\ WF_vars(Next /\ RequestStop) /\ WF_vars(Next /\ JoinListener)
    /\ SF_vars(Next /\ DestroyManager)
    /\ WF_vars(Next /\ stop /\ Receive) /\ WF_vars(Next /\ HandlerCrashes)
    /\ WF_vars(Next /\ (Answer \/ EnqueuePacket \/ Signal \/ CallbackCrashes))

FairSpec == Spec /\ Fairness

-----------------------------------------------------------------------------
(* Everything has its type.                                                *)
TypeOK ==
    /\ storm \in {"menu", "constructing", "assigning", "online", "reading",
                  "stopping", "joining", "dismantling"}
    /\ context \in BOOLEAN /\ stop \in BOOLEAN
    /\ listener \in {"none", "polling", "received", "handling", "ended"}
    /\ agent \in BOOLEAN /\ juice \in {"idle", "pinged", "checked", "queued"}
    /\ queue \in 0..MaxPackets /\ event \in BOOLEAN
    /\ crashed \in {"nobody", "front end", "listener", "libjuice"}

(* The listener and libjuice use the null pointer only while spi_initialize*)
(* or spi_destroy runs: what of theirs uses the context is gone when       *)
(* spi_destroy returns, and none of it is found half made when Storm plays.*)
Changing == {"constructing", "assigning", "stopping", "joining", "dismantling"}
NullOnlyInTransit ==
    crashed \in {"listener", "libjuice"} => storm \in Changing

(* Storm does not sleep on a packet that is in the queue, whatever was     *)
(* dropped before it.                                                      *)
NoPacketAsleep ==
    storm = "online" /\ queue > 0 => event \/ juice = "queued"

(* spi_destroy returns, or the program has ended.                          *)
DestroyReturns ==
    storm = "stopping" ~> storm = "menu" \/ crashed # "nobody"

(* A callback that comes while Storm goes back to the menu of connection   *)
(* types does not end the program: the check in on_recv is for it.         *)
CallbacksSurvive == crashed # "libjuice"
=============================================================================
