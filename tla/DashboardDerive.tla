-------------------------- MODULE DashboardDerive --------------------------
(***************************************************************************)
(* What the dashboard computes from the rows of a proxy snapshot when no   *)
(* endpoint answers it, and over the rows of its mock store: summaries per *)
(* country, ASN and source, filter options, the filtered and sorted list,  *)
(* one page of it, and what its tables are ordered by.                     *)
(***************************************************************************)
EXTENDS Integers, Sequences, SequencesExt

CONSTANTS
    Proxy,   \* the proxies there are
    Null,    \* null, undefined and the empty string
    RowOf    \* proxy -> the fields of its row; ids are numbers, in their order as texts

\* types.ts ProxyEndpoint: numbers where there are any, and always a source.
ASSUME RowsAssumption ==
    /\ Null \notin Int
    /\ \A p \in Proxy :
        /\ RowOf[p].source # Null /\ RowOf[p].score \in Int /\ RowOf[p].id \in Int
        /\ {RowOf[p].latency, RowOf[p].checkedAt, RowOf[p].successAt} \subseteq Int \cup {Null}

-----------------------------------------------------------------------------
\* Helpers: what filter, Map buckets, Array.sort and reduce do.  (SelectSeq says the
\* same as Filtered, but nothing can be proved of it.)

\* Array.prototype.filter.
Filtered(list, Test(_)) ==
    LET picked == [kept \in SUBSET DOMAIN list |->
            [k \in 1..Cardinality(kept) |->
                list[CHOOSE i \in kept : Cardinality({j \in kept : j <= i}) = k]]]
    IN  picked[{i \in DOMAIN list : Test(list[i])}]

\* Array.prototype.sort: stable.
Sorted(list, Before(_, _)) ==
    LET sorted == [items \in {list} |->
            [k \in DOMAIN items |-> items[CHOOSE i \in DOMAIN items :
                Cardinality({j \in DOMAIN items :
                    \/ Before(items[j], items[i])
                    \/ ~Before(items[i], items[j]) /\ j <= i}) = k]]]
    IN  sorted[list]

\* The keys of a Map filled in the order of the rows; rows without one are not
\* entered.
Keys(rows, keyOf) ==
    LET at == Filtered([i \in DOMAIN rows |-> i],
                LAMBDA i : keyOf[rows[i]] # Null /\ \A j \in 1..(i - 1) : keyOf[rows[j]] # keyOf[rows[i]])
    IN  [i \in DOMAIN at |-> keyOf[rows[at[i]]]]

Bucket(rows, keyOf, key) == Filtered(rows, LAMBDA p : keyOf[p] = key)

Sum(list) ==
    LET sum[n \in 0..Len(list)] == IF n = 0 THEN 0 ELSE sum[n - 1] + list[n]
    IN  sum[Len(list)]

Total(list, Of(_)) == Sum([i \in DOMAIN list |-> Of(list[i])])
Count(rows, Test(_)) == Cardinality({i \in DOMAIN rows : Test(rows[i])})
Larger(a, b) == IF a > b THEN a ELSE b

Country(p) == RowOf[p].country
Asn(p) == RowOf[p].asn
Source(p) == RowOf[p].source
CountryOf == [p \in Proxy |-> Country(p)]
AsnOf == [p \in Proxy |-> Asn(p)]
SourceOf == [p \in Proxy |-> Source(p)]
Status(p) == RowOf[p].status
Latency(p) == RowOf[p].latency

-----------------------------------------------------------------------------
\* dashboard-derive.ts

\* Mutant: the sum is divided by all rows, those without a latency included.
MutAverageLatency(rows) ==
    LET known == Filtered(rows, LAMBDA p : Latency(p) # Null)
    IN  IF known = <<>> THEN Null
        ELSE (2 * Total(known, Latency) + Len(rows)) \div (2 * Len(rows))

\* Math.round of the mean of the latencies there are.
averageLatency(rows) ==
    LET known == Filtered(rows, LAMBDA p : Latency(p) # Null)
    IN  IF known = <<>> THEN Null
        ELSE (2 * Total(known, Latency) + Len(known)) \div (2 * Len(known))

Summary(rows, keyOf, key) ==
    LET bucket == Bucket(rows, keyOf, key)
    IN  [name |-> key, total |-> Len(bucket),
         elite |-> Count(bucket, LAMBDA p : Status(p) = "elite"),
         latency |-> averageLatency(bucket)]

Summaries(rows, keyOf) ==
    LET keys == Keys(rows, keyOf)
    IN  Sorted([i \in DOMAIN keys |-> Summary(rows, keyOf, keys[i])],
               LAMBDA a, b : a.total > b.total)

deriveGeoSummary(rows) ==
    LET tagged == Count(rows, LAMBDA p : Country(p) # Null \/ Asn(p) # Null)
    IN  [coverage |-> [total |-> Len(rows), tagged |-> tagged,
                       unresolved |-> Larger(Len(rows) - tagged, 0), enabled |-> tagged > 0],
         countries |-> Summaries(rows, CountryOf),
         asns |-> Summaries(rows, AsnOf)]

\* api-client.ts normalizeGeoSummary: an answer of an older server carries no
\* coverage.
normalizeGeoSummary(geo, covered) ==
    LET sum(list) == Total(list, LAMBDA item : item.total)
        inferred == Larger(sum(geo.countries), sum(geo.asns))
    IN  IF covered THEN geo
        ELSE [geo EXCEPT !.coverage = [total |-> inferred, tagged |-> inferred,
                                       unresolved |-> 0, enabled |-> inferred > 0]]

FetchedAt(p) ==
    IF RowOf[p].checkedAt # Null THEN RowOf[p].checkedAt ELSE RowOf[p].successAt

\* Mutant: the error shown is the first of all rows.
MutProvider(rows, name) ==
    LET bucket == Bucket(rows, SourceOf, name)
        times == {FetchedAt(bucket[i]) : i \in DOMAIN bucket} \ {Null}
        errors == Filtered(rows, LAMBDA p : RowOf[p].error # Null)
    IN  [name |-> name, fetched |-> Len(bucket),
         valid |-> Count(bucket, LAMBDA p : Status(p) \in {"checked", "elite"}),
         fetchedAt |-> IF times = {} THEN Null ELSE Max(times),
         error |-> IF errors = <<>> THEN Null ELSE RowOf[errors[1]].error]

Provider(rows, name) ==
    LET bucket == Bucket(rows, SourceOf, name)
        times == {FetchedAt(bucket[i]) : i \in DOMAIN bucket} \ {Null}
        errors == Filtered(bucket, LAMBDA p : RowOf[p].error # Null)
    IN  [name |-> name, fetched |-> Len(bucket),
         valid |-> Count(bucket, LAMBDA p : Status(p) \in {"checked", "elite"}),
         fetchedAt |-> IF times = {} THEN Null ELSE Max(times),
         error |-> IF errors = <<>> THEN Null ELSE RowOf[errors[1]].error]

deriveProviderSummaries(rows) ==
    LET names == Keys(rows, SourceOf)
        provider == [name \in {Source(p) : p \in ToSet(rows)} |-> Provider(rows, name)]
    IN  Sorted([i \in DOMAIN names |-> provider[names[i]]],
               LAMBDA a, b : a.valid > b.valid \/ (a.valid = b.valid /\ a.fetched > b.fetched))

-----------------------------------------------------------------------------
\* proxy-list.ts

\* A filter sets some fields to a value, a least score, and a text that names
\* some of the proxies.
Passes(p, filter) ==
    /\ \A field \in DOMAIN filter.fields : RowOf[p][field] = filter.fields[field]
    /\ filter.minScore # Null => RowOf[p].score >= filter.minScore
    /\ filter.named # Null => p \in filter.named

ListedAt(p) == IF RowOf[p].checkedAt = Null THEN 0 ELSE RowOf[p].checkedAt

filterAndSortProxies(rows, filter) ==
    Sorted(Filtered(rows, LAMBDA p : Passes(p, filter)),
           LAMBDA p, q : \/ RowOf[p].score > RowOf[q].score
                         \/ RowOf[p].score = RowOf[q].score /\ ListedAt(p) > ListedAt(q))

collectProxyFilterOptions(rows) ==
    [countries |-> {Country(rows[i]) : i \in DOMAIN rows} \ {Null},
     sources |-> {Source(rows[i]) : i \in DOMAIN rows}]

\* One page of a list: slice((page - 1) * size, page * size).
PageOf(list, page, size) ==
    SubSeq(list, (page - 1) * size + 1,
           IF page * size < Len(list) THEN page * size ELSE Len(list))

TotalPages(total, size) == Larger(1, (total + size - 1) \div size)

\* PaginationControls.tsx: the pages its two buttons lead to.  The page may have
\* fallen behind the last one: there is a way back from it.
Neighbours(page, total, size) ==
    {q \in {page - 1, page + 1} : q >= 1 /\ (q < page \/ q <= TotalPages(total, size))}

-----------------------------------------------------------------------------
\* What the tables are ordered by.

\* LatencyAnalysisPanel.tsx: countries and ASNs with a latency, fastest first.
buildLatencyGroups(geo) ==
    Sorted(Filtered(geo.countries \o geo.asns, LAMBDA item : item.latency # Null),
           LAMBDA a, b : a.latency < b.latency)

\* ValidationPage.tsx: the warnings and errors by type, the commonest first.
countErrorTypes(events) ==
    LET bad == Filtered(events, LAMBDA e : e.level \in {"warning", "error"})
        typeOf == [e \in ToSet(bad) |-> e.type]
        types == Keys(bad, typeOf)
    IN  Sorted([i \in DOMAIN types |->
                    [type |-> types[i], total |-> Len(Bucket(bad, typeOf, types[i]))]],
               LAMBDA a, b : a.total > b.total)
=============================================================================
