----------------------------- MODULE MCConsole -----------------------------
(* The console, its files and the database file, checked on a small instance. *)
EXTENDS Console

CONSTANTS a, b, h1, h2, e1

MCKeys == {a, b}
MCHandlers == {h1, h2}
MCEvents == {e1}

\* As docs/retention.md writes a policy, with blocks the console replaces
\* whole, and no websocket block to insert before.
Documented ==
  <<Relay, Flat("relay_secret_key", "old"), Flat("admin_pubkeys", "founder"), Blank,
    Header("prune_retention_by_kind"), Child("1059", "30d"), Child("9", "7d"),
    Flat("max_subscriptions", "old"), Blank,
    Header("wot"), Child("enabled", "old"), Blank,
    Header("obelisk_index"), Child("enabled", "old")>>

\* A fresh deployment: the key startup minted and nothing else.
Fresh == UpsertSecret(<<>>, "minted")

MCFirstFiles == {Documented, Fresh}
\* Every file that screens, resets and starts make of these and of a file cut off, in any
\* order: nine rounds reach them all.
Made(fs) ==
  {Edited(f, edits) : f \in fs, edits \in Screens} \cup {EnsureIdentity(f) : f \in fs}
    \cup UNION {{SetupMode(s) : s \in ReadScalar(f, "relay_secret_key")} : f \in fs}
Round(before) ==
  LET found == {f \in Made(before.last) : f \notin before.all}
      all == before.all \cup found
  IN  [all |-> all, last |-> found, size |-> Cardinality(all)]
Start == MCFirstFiles \cup {<<>>}
\* The size is for TLC, which sorts a set when it counts it.
Reached ==
  FoldLeft(LAMBDA before, n : Round(before),
           [all |-> Start, last |-> Start, size |-> Cardinality(Start)],
           <<1, 2, 3, 4, 5, 6, 7, 8, 9>>).all
ASSUME ReachedAssumption ==
  KeepsSettings(Reached) /\ KeepsConfigured({f \in Reached : ~Headless(f)})

\* The request slots are alike.
MCSymmetry == Permutations(MCHandlers)
=============================================================================
