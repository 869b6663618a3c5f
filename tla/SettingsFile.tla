---------------------------- MODULE SettingsFile ----------------------------
(***************************************************************************)
(* The line editing of settings.local.yml (src/admin.rs, src/config.rs):   *)
(* how the console replaces a setting in the file, how it reads one back,  *)
(* and what the relay loads from the file when it starts.                  *)
(*                                                                         *)
(* A file is a sequence of lines; a line has an indent, a key and a value. *)
(* A line whose value is None opens a block.  Comments are left out; blank *)
(* lines are kept, since they end a block for one editor and not for YAML. *)
(***************************************************************************)
EXTENDS Naturals, Sequences, SequencesExt

None == "none"                 \* no value on this line
Relay == [indent |-> 0, key |-> "relay", val |-> None]
Blank == [indent |-> 0, key |-> "", val |-> None]
Flat(k, v) == [indent |-> 2, key |-> k, val |-> v]
Header(k) == Flat(k, None)
Child(k, v) == [indent |-> 4, key |-> k, val |-> v]

IsBlank(l) == l = Blank

\* A setting is a key of a block, or of "relay" itself (block "").
Setting(b, k) == [block |-> b, key |-> k]

-----------------------------------------------------------------------------
(* The editors.                                                            *)

First(f, P(_)) ==
  IF \E i \in DOMAIN f : P(f[i])
    THEN CHOOSE i \in DOMAIN f : P(f[i]) /\ \A j \in 1..(i - 1) : ~P(f[j])
    ELSE Len(f) + 1

IsWebsocket(l) == l.key = "websocket"
IsRelay(l) == l.key = "relay"

\* The indented lines a key owns: up to a blank line or one indented no further.
Owned(f, i) ==
  {j \in (i + 1)..Len(f) :
     \A m \in (i + 1)..j : ~IsBlank(f[m]) /\ f[m].indent > f[i].indent}

UpsertValue(f, k, v) ==
  LET hits == {i \in DOMAIN f : f[i].key = k}
      gone == UNION {Owned(f, i) : i \in hits}
      Line(i) == IF i \in gone THEN <<>>
                 ELSE IF i \in hits THEN <<Flat(k, v)>> ELSE <<f[i]>>
  IN  IF hits = {}
        THEN InsertAt(f, First(f, IsWebsocket), Flat(k, v))
        ELSE FoldLeftDomain(LAMBDA g, i : g \o Line(i), <<>>, f)

\* The first line after i that is indented no further than a block's header.
BlockEnd(f, i) ==
  LET ends == {j \in (i + 1)..Len(f) : ~IsBlank(f[j]) /\ f[j].indent <= 2}
  IN  IF ends = {} THEN Len(f) + 1 ELSE CHOOSE j \in ends : \A m \in ends : j <= m

UpsertBlock(f, b, k, v) ==
  LET IsHeader(l) == l.key = b /\ l.val = None
      found == First(f, IsHeader)
      start == IF found <= Len(f) THEN found ELSE First(f, IsWebsocket)
      g == IF found <= Len(f) THEN f ELSE InsertAt(f, start, Header(b))
      end == BlockEnd(g, start)
      hits == {j \in (start + 1)..(end - 1) : g[j].key = k}
  IN  IF hits = {}
        THEN InsertAt(g, end, Child(k, v))
        ELSE [g EXCEPT ![CHOOSE j \in hits : \A m \in hits : j <= m] = Child(k, v)]

Upsert(f, s, v) ==
  IF s.block = "" THEN UpsertValue(f, s.key, v) ELSE UpsertBlock(f, s.block, s.key, v)

\* Startup's own editor, for a relay without a key of its own.
UpsertSecret(f, v) ==
  LET IsSecret(l) == l.key = "relay_secret_key"
      at == First(f, IsSecret)
      g == IF \E i \in DOMAIN f : IsRelay(f[i]) THEN f ELSE <<Relay>> \o f
  IN  IF at <= Len(f) THEN [f EXCEPT ![at] = Flat("relay_secret_key", v)]
      ELSE InsertAt(g, First(g, IsRelay) + 1, Flat("relay_secret_key", v))

-----------------------------------------------------------------------------
(* What the console shows of a setting.                                    *)

ReadScalar(f, k) ==
  LET Holds(l) == l.key = k /\ l.val # None
      at == First(f, Holds)
  IN  IF at <= Len(f) THEN {f[at].val} ELSE {}

ReadBlock(f, b, k) ==
  LET IsHeader(l) == l.key = b /\ l.val = None
      start == First(f, IsHeader)
  IN  IF start > Len(f) THEN {}
      ELSE ReadScalar(SubSeq(f, start + 1, BlockEnd(f, start) - 1), k)

Shows(f, s) == IF s.block = "" THEN ReadScalar(f, s.key) ELSE ReadBlock(f, s.block, s.key)

-----------------------------------------------------------------------------
(* What a YAML parser makes of the file.                                   *)

\* The nearest line above j that is indented less: what j is a part of.
Parent(f, j) ==
  LET above == {i \in 1..(j - 1) : ~IsBlank(f[i]) /\ f[i].indent < f[j].indent}
  IN  IF above = {} THEN 0 ELSE CHOOSE i \in above : \A m \in above : m <= i

\* Every indented line belongs to a line that opens a block, and no block has
\* a key twice.
Parses(f) ==
  \A j \in DOMAIN f : ~IsBlank(f[j]) =>
    /\ Parent(f, j) > 0 => f[Parent(f, j)].val = None
    /\ \A i \in DOMAIN f : i # j /\ f[i].key = f[j].key => Parent(f, i) # Parent(f, j)

\* What startup loads: the values of a key in its block, or the values under
\* it; {} stands for the default of settings.yml.
Loads(f, s) ==
  LET InPlace(i) ==
        /\ f[i].key = s.key /\ Parent(f, i) > 0
        /\ LET p == Parent(f, i)
           IN  IF s.block = "" THEN f[p] = Relay
               ELSE f[p] = Header(s.block) /\ Parent(f, p) > 0 /\ f[Parent(f, p)] = Relay
      Value(i) == IF f[i].val # None THEN {f[i].val}
                  ELSE {f[j].val : j \in {j \in DOMAIN f : Parent(f, j) = i /\ ~IsBlank(f[j])}}
  IN  UNION {Value(i) : i \in {i \in DOMAIN f : InPlace(i)}}
=============================================================================
