--------------------------- MODULE UpstreamPorts ---------------------------
(***************************************************************************)
(* The source ports of the relay's own connections, and the WinDivert      *)
(* filter that must not capture them: _connect_upstream and _build_filter  *)
(* of divert_engine.py.                                                    *)
(*                                                                         *)
(* The relay's connection to the real server leaves this host for the very *)
(* ports that the engine intercepts.  Every handler therefore binds its    *)
(* socket to a port of a reserved range, taken from one global counter     *)
(* under a lock, and the filter leaves packets from that range alone.      *)
(***************************************************************************)
EXTENDS Integers, Sequences, FiniteSets

CONSTANTS
    Threads,        \* relay handler threads
    Base, Count,    \* UPSTREAM_PORT_BASE, UPSTREAM_PORT_COUNT
    RelayPort,      \* RELAY_PORT
    OtherPorts,     \* source ports the host gives to anybody else
    Intercepted,    \* INTERCEPT_TCP_PORTS
    DohIps,         \* DOH_IPS
    Addresses       \* destination addresses

ASSUME RangeAssumption == Base \in Nat /\ Count \in Nat \ {0}

Hi == Base + Count - 1
PortRange == Base .. Hi

\* 47443 is outside the reserved range, which lies below the ports that the
\* operating system hands out (comments of lines 59-64).
ASSUME RelayPortAssumption == RelayPort \in Nat \ PortRange
ASSUME OtherPortsAssumption == OtherPorts \subseteq Nat \ (PortRange \cup {RelayPort})
ASSUME DohAssumption == DohIps \subseteq Addresses

VARIABLES
    nextPort,   \* _next_port
    pc,         \* per thread: where it is in _connect_upstream
    port,       \* per thread: `port`
    tries,      \* per thread: iterations of the loop finished
    busy,       \* ports in use, or lingering after use
    given       \* history: the last Count ports handed out, oldest first

portVars == <<nextPort, pc, port, tries, busy, given>>

PortsTypeOK ==
    /\ nextPort \in PortRange
    /\ pc \in [Threads -> {"idle", "take", "bind", "connect", "open", "error"}]
    /\ port \in [Threads -> PortRange]
    /\ tries \in [Threads -> 0 .. Count]
    /\ busy \in SUBSET PortRange
    /\ given \in Seq(PortRange)

\* Inside the loop there is always an attempt left.
InLoop == \A t \in Threads : pc[t] \in {"take", "bind"} => tries[t] < Count

PortInv == PortsTypeOK /\ InLoop

PortsInit ==
    /\ nextPort = Base
    /\ pc = [t \in Threads |-> "idle"]
    /\ port = [t \in Threads |-> Base]
    /\ tries = [t \in Threads |-> 0]
    /\ busy = {}
    /\ given = <<>>

-----------------------------------------------------------------------------
(* The filter. A TCP packet: source port, destination port and address.    *)

CapturesTcp(sport, dport, dst) ==
    \/ dport \in Intercepted /\ dst \notin DohIps /\ (sport < Base \/ sport > Hi)
    \/ sport = RelayPort

-----------------------------------------------------------------------------
Begin(t) ==
    /\ pc[t] \in {"idle", "error"}
    /\ pc' = [pc EXCEPT ![t] = "take"]
    /\ tries' = [tries EXCEPT ![t] = 0]
    /\ UNCHANGED <<nextPort, port, busy, given>>

\* Take the next port of the range that ends at `last`.
TakePortUpTo(t, last) ==
    /\ pc[t] = "take"
    /\ port' = [port EXCEPT ![t] = nextPort]
    /\ nextPort' = IF nextPort + 1 <= last THEN nextPort + 1 ELSE Base
    /\ given' = LET g == Append(given, nextPort)
                IN  IF Len(g) > Count THEN Tail(g) ELSE g
    /\ pc' = [pc EXCEPT ![t] = "bind"]
    /\ UNCHANGED <<tries, busy>>

\* Faulty variants: the counter wraps one port too late, or too early.
TakePortPastEnd(t) == TakePortUpTo(t, Hi + 1)
TakePortShort(t) == TakePortUpTo(t, Hi - 1)

\* Under _port_lock.
TakePort(t) == TakePortUpTo(t, Hi)

\* SO_REUSEADDR is set: on Windows bind then succeeds on a used port, too.
Bind(t) ==
    /\ pc[t] = "bind"
    /\ busy' = busy \cup {port[t]}
    /\ pc' = [pc EXCEPT ![t] = "connect"]
    /\ UNCHANGED <<nextPort, port, tries, given>>

BindFails(t) ==
    /\ pc[t] = "bind" /\ port[t] \in busy
    /\ tries' = [tries EXCEPT ![t] = @ + 1]
    /\ pc' = [pc EXCEPT ![t] = IF tries'[t] < Count THEN "take" ELSE "error"]
    /\ UNCHANGED <<nextPort, port, busy, given>>

Connected(t) ==
    /\ pc[t] = "connect"
    /\ pc' = [pc EXCEPT ![t] = "open"]
    /\ UNCHANGED <<nextPort, port, tries, busy, given>>

\* The connection is refused or closed again; its port may linger (TIME_WAIT).
Close(t) ==
    /\ pc[t] \in {"connect", "open"}
    /\ pc' = [pc EXCEPT ![t] = "idle"]
    /\ busy' \in {busy, busy \ {port[t]}}
    /\ UNCHANGED <<nextPort, port, tries, given>>

\* Ports held by closed connections become free; other programs bind some.
PortsChange ==
    /\ LET held == {port[t] : t \in {u \in Threads : pc[u] \in {"connect", "open"}}}
       IN  \E p \in PortRange \ held :
              busy' = IF p \in busy THEN busy \ {p} ELSE busy \cup {p}
    /\ UNCHANGED <<nextPort, pc, port, tries, given>>

Step(t) == Begin(t) \/ TakePort(t) \/ Bind(t) \/ BindFails(t) \/ Connected(t) \/ Close(t)

PortsNext == PortsChange \/ \E t \in Threads : Step(t)

PortsSpec == PortsInit /\ [][PortsNext]_portVars

-----------------------------------------------------------------------------
\* The relay's own connections and those of the resolver pass the filter, so
\* the engine never redirects its own traffic to itself, while an intercepted
\* connection of any other program is captured (65-67, 77-93, 261-288).
OwnTrafficPasses ==
    /\ \A t \in Threads : pc[t] \in {"connect", "open"} =>
          \A d \in Intercepted, a \in Addresses : ~CapturesTcp(port[t], d, a)
    /\ \A s \in OtherPorts, d \in Intercepted, a \in Addresses :
          CapturesTcp(s, d, a) <=> a \notin DohIps

\* A port rests while all the others are handed out, whoever asks: the last
\* Count ports are different, so one in TIME_WAIT is retried last (268-269).
PortsRest ==
    \A i, j \in DOMAIN given : i # j => given[i] # given[j]
=============================================================================
