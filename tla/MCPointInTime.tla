--------------------------- MODULE MCPointInTime ---------------------------
(***************************************************************************)
(* An instance of PointInTime for TLC: six sessions, four assets, three    *)
(* observations of two sources of one dataset, and a second dataset that   *)
(* may not be used.                                                        *)
(***************************************************************************)
EXTENDS PointInTime

Vintage(key, obs, day, value, published, extracted, llm) ==
    [dataset |-> "permits", key |-> key, obs |-> obs, day |-> day, value |-> value, published |-> published,
     retrieved |-> published, extracted |-> extracted, llm |-> llm]
Early == Vintage(1, 1, 1, 2, 2, 2, FALSE)
LateRevision == Vintage(1, 1, 1, 3, 3, 8, FALSE)
Withdrawal == Vintage(1, 1, 1, None, 9, 9, FALSE)
Second == Vintage(2, 2, 2, 1, 4, 4, FALSE)
Newer == Vintage(1, 3, 2, 5, 5, 11, TRUE)
MCSources == {Early, LateRevision, Withdrawal, Second, Newer}

Exposed(asset, key, from, available, weight) ==
    [asset |-> asset, key |-> key, from |-> from, to |-> None, available |-> available, weight |-> weight]
Late == Exposed(1, 2, 1, 3, -50)
MCExposures ==
    {Exposed(asset, 1, 1, 0, 25 * asset) : asset \in 1..4} \cup {Late, Exposed(1, 2, 2, 10, 0)}

Member(asset, from, to, known) == [asset |-> asset, from |-> from, to |-> to, known |-> known]
MCUniverse == {Member(asset, 0, None, 0) : asset \in 1..4} \cup {Member(4, 0, 2, 8)}

Price(session, asset, value, available) ==
    [session |-> session, asset |-> asset, field |-> "open", value |-> value, available |-> available]
MCOpens ==
    {Price(session, asset, 10 + ((asset * session) % 7), 2 * session) : session \in 1..6, asset \in 1..4}
      \cup {Price(2, 1, 11, 5), Price(3, 2, 30, 8), Price(4, 3, 30, 10)}

MCUnreliable == {Early, Withdrawal}
MCCalendar == [i \in 1..6 |-> [day |-> i, open |-> 2 * i, decision |-> 2 * i + 1]]

Plan(mode, clock, max_age, lag, allow_llm) ==
    [dataset |-> "permits", mode |-> mode, clock |-> clock, max_age |-> max_age, lag |-> lag, allow_llm |-> allow_llm]
MCPlans ==
    {Plan("event_sum", "as_run", 5, 0, FALSE), Plan("latest_proxy", "as_run", 4, 0, FALSE),
     Plan("event_sum", "as_run", 5, 1, FALSE), Plan("latest_proxy", "publication_replay", 5, 0, TRUE),
     Plan("event_sum", "publication_replay", 5, 0, FALSE)}
MCFormulas == {[fn |-> "field", window |-> 0], [fn |-> "ts_mean", window |-> 2], [fn |-> "ts_delta", window |-> 1]}

MCCatalog ==
    {[dataset |-> "permits", rights |-> Rights], [dataset |-> "scraped", rights |-> Rights \ {"impersonal"}]}
MCMaps ==
    {[dataset |-> "permits", exposures |-> {Exposed(1, 1, 1, 0, 25), Late}]}
MCSymmetry == Permutations(Creators)
MCParts == <<"observations", "evidence">>
=============================================================================
