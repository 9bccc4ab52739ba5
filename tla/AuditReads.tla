----------------------------- MODULE AuditReads -----------------------------
(***************************************************************************)
(* The read API of services/audit: Store.List, Store.VerifyRange, the      *)
(* bundle of exportHandler and the auditor's VerifyBundleChain.  Each is   *)
(* one SQL query over the committed rows, so it is an operator on the      *)
(* state of AuditChain; the properties say what successive reads see while *)
(* appends go on.                                                          *)
(***************************************************************************)
EXTENDS AuditChain, IdOrder, SequencesExt

CONSTANTS
    SubMicro,       \* events whose time has digits below the microsecond
    Respelled,      \* events whose correlation id is a UUID in another spelling
                    \* than Postgres prints: upper case, braced, unhyphenated
    PageLimit       \* the limit of a page (500 in exportHandler)

ASSUME SubMicroAssumption == SubMicro \subseteq Events
ASSUME RespelledAssumption == Respelled \subseteq Events
ASSUME PageLimitAssumption == PageLimit \in Nat \ {0}

-----------------------------------------------------------------------------
\* SELECT ... FROM audit_entries ORDER BY entry_id ASC, for the rows of a WHERE.
ById(S) ==
    LET ids == Ascending({r.entry_id : r \in S})
    IN  [i \in DOMAIN ids |-> CHOOSE r \in S : r.entry_id = ids[i]]

Between(from, to) ==
    ById({r \in Rows : from <= r.entry_id /\ r.entry_id <= to})

\* List: the first rows after a cursor that pass the filters.  A filter on the
\* immutable columns of a row is the set of the events that pass it.
List(after, limit, filter) ==
    FirstOf(ById({r \in Rows : r.entry_id > after /\ r.entry_uuid \in filter}), limit)

\* The rows that are not read back as they were hashed.  The hash is taken over the
\* nanoseconds and the correlation id of the envelope; TIMESTAMPTZ keeps
\* microseconds, and correlation_id::text is the canonical spelling.  The other
\* columns come back as they were: an entry_uuid is drawn in canonical form, a
\* detail was a JSONB of the outbox before, an empty string is NULL and back.
Altered == SubMicro \union Respelled

\* chain.Compute on the row as it is read back equals the stored hash.
Recomputes(r) ==
    /\ r.entry_uuid \notin Altered
    /\ r.entry_hash = Compute(r.entry_uuid, r.previous_hash)

\* The walk VerifyRange and VerifyBundleChain make over rows that should extend
\* expectedPrev: the first row that does not chain or recompute, or "intact".
Walk(rows, expectedPrev) ==
    LET Expected(i) == IF i = 1 THEN expectedPrev ELSE rows[i - 1].entry_hash
        broken == {i \in DOMAIN rows : \/ rows[i].previous_hash # Expected(i)
                                       \/ ~Recomputes(rows[i])}
    IN  IF broken = {} THEN "intact"
        ELSE rows[CHOOSE i \in broken : \A j \in broken : i <= j].entry_uuid

\* VerifyRange, and with the genesis hash expected before any range.
VerifyRange_Genesis(from, to) == Walk(Between(from, to), GenesisHash)

VerifyRange(from, to) ==
    LET first == IF from <= 0 THEN 1 ELSE from
        before == {r \in Rows : r.entry_id = first - 1}
        rows == Between(first, to)
    IN  IF first = 1 THEN Walk(rows, GenesisHash)
        ELSE IF before = {} THEN "anchor lookup failed"
        ELSE Walk(rows, LastHash(before))

\* GET /verify: no to_id, or 0, walks to the end of the chain.
Verify(fromId, toId) == VerifyRange(fromId, IF toId = 0 THEN seq ELSE toId)

\* The bundle of GET /export: one page, cut at to, behind its anchor.
Trimmed(from, to) ==
    ById({r \in Range(List(from - 1, PageLimit, Events)) : r.entry_id <= to})

BundleAnchor_Stored(from, rows) ==
    LET before == {r \in Rows : r.entry_id = from - 1}
    IN  [anchor_entry_id |-> from - 1, anchor_entry_hash |-> LastHash(before)]

BundleAnchor(from, rows) ==
    IF from > 1 /\ rows # << >>
    THEN [anchor_entry_id |-> from - 1,
          anchor_entry_hash |-> rows[1].previous_hash]
    ELSE [anchor_entry_id |-> 0, anchor_entry_hash |-> GenesisHash]

Bundle(from, to) ==
    LET rows == Trimmed(from, to)
    IN  [anchor |-> BundleAnchor(from, rows), entries |-> rows]

VerifyBundleChain(b) == Walk(b.entries, b.anchor.anchor_entry_hash)

-----------------------------------------------------------------------------
(* Properties.                                                             *)

Ids == 1 .. seq + 1

\* GET /verify never blames a row that was appended as the code appends rows,
\* whatever ids are burnt and whatever is appended meanwhile; the exceptions are
\* the rows whose columns changed a hashed value: a time that lost its digits
\* below the microsecond, a correlation id that came back in another spelling.
VerifyBlamesOnlyAltered ==
    \A from, to \in 0 .. seq + 1 :
        Verify(from, to)
            \in {"intact", "anchor lookup failed"} \union Altered

\* "for every row, entry_hash == SHA256(canonical(row))", "so the hash matches what
\* the verifier will recompute" (chain.go): no row is ever found broken.
VerifyNeverBlames ==
    \A from, to \in 0 .. seq + 1 :
        Verify(from, to) \in {"intact", "anchor lookup failed"}

\* An exported bundle passes the auditor's chain walk unless a row of it is altered,
\* and an export that starts where an earlier one ended extends it: its anchor is
\* the hash of the earlier bundle's last row, even when the id just before it was
\* burnt.
BundlesChain ==
    \A from, to \in Ids :
        LET b == Bundle(from, to)
        IN  /\ VerifyBundleChain(b) \in {"intact"} \union Altered
            /\ b.entries # << >> =>
                 LET after == Bundle(Last(b.entries).entry_id + 1, seq + 1)
                 IN  after.entries # << >> =>
                       after.anchor.anchor_entry_hash = Last(b.entries).entry_hash

\* GET /entries is "stable under concurrent appends" (docs/AUDIT.md): re-reading a
\* page returns the same rows in the same places, followed at most by new ones, so
\* that a client following next_cursor misses no row and sees none twice.
PagesOnlyGrow ==
    [][entries' # entries =>
         \A after \in 0 .. seq, filter \in SUBSET Events :
             IsPrefix(List(after, PageLimit, filter),
                      List(after, PageLimit, filter)')]_vars

=============================================================================
