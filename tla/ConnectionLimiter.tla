------------------------- MODULE ConnectionLimiter -------------------------
(***************************************************************************)
(* The permits of src/src/connection_limits.rs: one per WebSocket, counted *)
(* in total and per address, claimed before the upgrade and given back     *)
(* when the connection's handler is dropped.                               *)
(***************************************************************************)
EXTENDS Integers, FiniteSets

CONSTANTS
    Conns,       \* connections
    Addrs,       \* client addresses
    MaxTotal,    \* websocket.max_connections, or NoLimit
    MaxPerIp,    \* DEFAULT_MAX_CONNECTIONS_PER_IP, or the configured ceiling
    NoLimit

ASSUME ConnsAssumption == IsFiniteSet(Conns)
ASSUME LimitsAssumption == MaxTotal \in Nat \cup {NoLimit} /\ MaxPerIp \in Nat
ASSUME NoLimitAssumption == NoLimit \notin Nat

VARIABLES
    total,       \* LimiterState::total
    perIp,       \* LimiterState::per_ip, with no entry for an address that has none
    permit       \* the address of each connection that holds a permit

limiterVars == <<total, perIp, permit>>

Connected == DOMAIN permit
Holders(ip) == {c \in Connected : permit[c] = ip}
PerIp(ip) == IF ip \in DOMAIN perIp THEN perIp[ip] ELSE 0

\* try_acquire: the total is checked first.
GlobalLimit == MaxTotal # NoLimit /\ total >= MaxTotal
PerIpLimit(ip) == PerIp(ip) >= MaxPerIp

Acquire(c, ip) ==
    /\ c \notin Connected
    /\ ~GlobalLimit
    /\ ~PerIpLimit(ip)
    /\ perIp' = [a \in DOMAIN perIp \cup {ip} |-> IF a = ip THEN PerIp(ip) + 1 ELSE perIp[a]]
    /\ total' = total + 1
    /\ permit' = [d \in Connected \cup {c} |-> IF d = c THEN ip ELSE permit[d]]

\* Mutant: an entry that came down to zero stays.
ReleaseKeepingEntry(c) ==
    /\ c \in Connected
    /\ total' = IF total = 0 THEN 0 ELSE total - 1
    /\ perIp' = [a \in DOMAIN perIp |-> IF a = permit[c] THEN perIp[a] - 1 ELSE perIp[a]]
    /\ permit' = [d \in Connected \ {c} |-> permit[d]]

\* Drop for ConnectionPermit.
Release(c) ==
    /\ c \in Connected
    /\ total' = IF total = 0 THEN 0 ELSE total - 1
    /\ LET ip == permit[c]
           rest == IF PerIp(ip) = 1 THEN DOMAIN perIp \ {ip} ELSE DOMAIN perIp
       IN  perIp' = [a \in rest |-> IF a = ip THEN perIp[a] - 1 ELSE perIp[a]]
    /\ permit' = [d \in Connected \ {c} |-> permit[d]]

LimiterInit ==
    /\ total = 0
    /\ perIp = [a \in {} |-> 0]
    /\ permit = [c \in {} |-> 0]

LimiterNext == \E c \in Conns : Release(c) \/ \E ip \in Addrs : Acquire(c, ip)

LimiterSpec == LimiterInit /\ [][LimiterNext]_limiterVars

-----------------------------------------------------------------------------
(* Properties. *)

LimiterTypeOK ==
    /\ total \in Nat
    /\ DOMAIN perIp \subseteq Addrs
    /\ perIp \in [DOMAIN perIp -> Nat]
    /\ Connected \subseteq Conns
    /\ permit \in [Connected -> Addrs]

\* The limiter's counts are those of the connections that live: a permit is counted once,
\* in total and for its address, and given back once, and no address is remembered
\* without a connection.  The ceilings hold by it.
PermitsCounted ==
    /\ total = Cardinality(Connected)
    /\ \A ip \in Addrs : PerIp(ip) = Cardinality(Holders(ip))
    /\ \A ip \in DOMAIN perIp : perIp[ip] # 0
    /\ MaxTotal # NoLimit => Cardinality(Connected) <= MaxTotal
    /\ \A ip \in Addrs : Cardinality(Holders(ip)) <= MaxPerIp
=============================================================================
