----------------------------- MODULE StoreData -----------------------------
(* The calls of the AdminStore trait (maxllm-admin/src/store.rs:37-70) and   *)
(* the answers they compute, shared by the promise (AdminStore) and by the  *)
(* two backends (StoreBackends).  A key stands for its id and for its hash: *)
(* both are drawn once when the key is generated and never change.  The     *)
(* columns of a row are one abstract value.                                 *)
EXTENDS Naturals, Sequences, SequencesExt, FiniteSets

CONSTANTS
  Threads,  \* workers calling the store
  KeyIds, TeamIds,
  Vals,     \* contents of a row
  Models,   \* what a log entry is filtered and grouped by
  All,      \* the absent filter, and the label of a report's total
  NoOne,    \* a lock's holder when it is free
  MaxCalls  \* bound: calls made in a behaviour

ASSUME StoreAssumption ==
  /\ MaxCalls \in Nat
  /\ NoOne \notin Threads
  /\ All \notin KeyIds \cup Models

\* The limits and offsets a table is read with: the API's page sizes,
\* abstracted.
Limits  == 1 .. 2
Offsets == 0 .. 1

Calls ==
  [op : {"create_key", "update_key"}, id : KeyIds, val : Vals]
    \cup [op : {"get_key_by_hash", "get_key_by_id", "delete_key"}, id : KeyIds]
    \cup [op : {"create_team", "update_team"}, id : TeamIds, val : Vals]
    \cup [op : {"get_team", "delete_team"}, id : TeamIds]
    \cup [op : {"list_keys"}, offset : Offsets, limit : Limits]
    \cup [op : {"list_teams"}]
    \cup [op : {"record_spend"}, key : KeyIds, model : Models]
    \cup [op : {"get_spend_logs"}, of : KeyIds \cup {All}, limit : Limits]
    \cup [op : {"get_spend_summary"}, of : KeyIds \cup {All}]
    \cup [op : {"record_request_log"}, model : Models]
    \cup [op : {"get_request_logs"}, of : Models \cup {All}, limit : Limits]

KeyCalls  == {"create_key", "update_key", "get_key_by_hash", "get_key_by_id",
              "delete_key", "list_keys"}

\* An answer is a status and the rows it carries, each row a pair.
Answer(status, rows) == <<status, rows>>
NoAnswer             == Answer("pending", {})

Rows(table)      == {<<i, table[i]>> : i \in DOMAIN table}
Row(table, i)    == {<<i, table[j]>> : j \in DOMAIN table \cap {i}}
Put(table, i, v) == [j \in DOMAIN table \cup {i} |-> IF j = i THEN v ELSE table[j]]
Without(table, i) == [j \in DOMAIN table \ {i} |-> table[j]]

\* The spend of the other keys, in its order.
SpendOfOthers(log, k) ==
  FoldLeft(LAMBDA rest, r : IF r.key = k THEN rest ELSE Append(rest, r), <<>>, log)

EmptyDb == [keys |-> <<>>, teams |-> <<>>, spend |-> <<>>, requests |-> <<>>]

Spends(log, of)   == {n \in DOMAIN log : of \in {All, log[n].key}}
Requests(log, of) == {n \in DOMAIN log : of \in {All, log[n]}}

\* The last `limit` of the entries `hits`, newest first.
Newest(hits, limit) == {n \in hits : Cardinality({m \in hits : m > n}) < limit}

\* Any `limit` of them: the order of the callers' timestamps, which nothing
\* ties to the order of insertion.
Pages(hits, limit) ==
  {S \in SUBSET hits : Cardinality(S) = IF Cardinality(hits) < limit
                                        THEN Cardinality(hits) ELSE limit}

\* A page of a table's rows: those after the first `offset`, in the order of
\* the creation times the callers wrote into them.
TablePages(table, offset, limit) ==
  UNION {Pages(Rows(table) \ skipped, limit) : skipped \in Pages(Rows(table), offset)}

Entries(hits) == {<<All, n>> : n \in hits}

\* The totals of a spend report, and its groups (by model stands for the
\* three groupings, which run over the same records).
Totals(log, of) == {<<All, Cardinality(Spends(log, of))>>}
Groups(log, of) ==
  {<<m, Cardinality({n \in Spends(log, of) : log[n].model = m})>> :
     m \in {log[n].model : n \in Spends(log, of)}}
=============================================================================
