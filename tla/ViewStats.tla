------------------------------- MODULE ViewStats -------------------------------
(***************************************************************************)
(* What the hourly rows of Visit remember of the visits of one link, and   *)
(* the figures (last day, week and month, all time) that are summed from   *)
(* them when its owner asks.  From GrpcBackend/Repositories/               *)
(* VisitRepository.cs (Add), Services/UrlService.cs (Convert and below)    *)
(* and Shared/Entities/Url.cs (ViewStats).  That the statements of several *)
(* replicas interleave is VisitCounting's matter.                          *)
(*                                                                         *)
(* A browser's key in the JSON column, Name-Version, is the pair of both.  *)
(* Mobile device types and referrers are kept and summed as countries are, *)
(* except that a visit may lack them; the referrer stands for both.        *)
(***************************************************************************)
EXTENDS Integers, Bags, FiniteSets, Sequences, Functions, FiniteSetsExt

CONSTANTS
    Visits,    \* visits that may happen, records of an agent, country and referrer
    MaxVisits, \* bound: the visits
    MaxRows    \* bound: the rows

VARIABLES
    rows,  \* the rows of Visit with this UrlId, by Id
    log    \* history: the visits, each with the row that took it

vars == <<rows, log>>

None == "none"

UserAgentType == {"Browser", "Robot", "Unknown"}
PlatformType == {"Windows", "Linux", "Ios", "MacOs", "Android", "Other"}
BrowserType == {"Chrome", "Edge", "Firefox", "InternetExplorer", "Opera", "Safari", "Other"}

\* Days since a row was created, where the code can tell rows apart: within the
\* last hour, at most a day, a week, a month, longer.
Age == {0, 1, 7, 30, 31}

Windows == {"LastDay", "LastWeek", "LastMonth", "AllTime"}

Counts(types) == [types -> Nat]
One(type, types) == [t \in types |-> IF t = type THEN 1 ELSE 0]

\* A JSON object that counts the name once, if there is one.
Key(name) == SetToBag({name} \ {None})

Init == rows = <<>> /\ log = EmptyBag

-------------------------------------------------------------------------------
(* VisitRepository.Add *)

\* Mutant: a missing type is counted as well.
Plus_Any(counts, type) ==
    [t \in DOMAIN counts \union {type} |->
        (IF t \in DOMAIN counts THEN counts[t] ELSE 0) + (IF t = type THEN 1 ELSE 0)]

\* Each type has a column; a visit without a platform or browser counts in none.
Plus(counts, type) == [t \in DOMAIN counts |-> counts[t] + (IF t = type THEN 1 ELSE 0)]

\* Name-Version of the browser, if there is one.
BrowserVersion(browser) ==
    SetToBag({[name |-> b.name, version |-> b.version] : b \in {c \in {browser} : c.type # None}})

\* The row of a first visit; the names of Android and iOS are not kept.
Insert(v) ==
    [total |-> 1,
     types |-> One(v.agent.type, UserAgentType),
     platformTypes |-> One(v.agent.platform.type, PlatformType),
     platforms |-> IF v.agent.platform.type \in {"Android", "Ios"} THEN EmptyBag
                   ELSE Key(v.agent.platform.name),
     browserTypes |-> One(v.agent.browser.type, BrowserType),
     browsers |-> BrowserVersion(v.agent.browser),
     countries |-> Key(v.country),
     referrers |-> Key(v.referrer),
     age |-> 0]

\* Mutant: the key's count starts anew.
Update_Overwrites(row, v) ==
    [row EXCEPT !.total = @ + 1,
                !.types = Plus(@, v.agent.type),
                !.platformTypes = Plus(@, v.agent.platform.type),
                !.platforms = @ (+) Key(v.agent.platform.name),
                !.browserTypes = Plus(@, v.agent.browser.type),
                !.browsers = @ (+) BrowserVersion(v.agent.browser),
                !.countries = Key(v.country),
                !.referrers = @ (+) Key(v.referrer)]

\* A later visit within the hour; here all names are kept.
Update(row, v) ==
    [row EXCEPT !.total = @ + 1,
                !.types = Plus(@, v.agent.type),
                !.platformTypes = Plus(@, v.agent.platform.type),
                !.platforms = @ (+) Key(v.agent.platform.name),
                !.browserTypes = Plus(@, v.agent.browser.type),
                !.browsers = @ (+) BrowserVersion(v.agent.browser),
                !.countries = @ (+) Key(v.country),
                !.referrers = @ (+) Key(v.referrer)]

\* Mutant: any row will do.
GetLastHour_Any == DOMAIN rows

GetLastHour == {i \in DOMAIN rows : rows[i].age = 0}

Log(v, i) == log' = log (+) SetToBag({[visit |-> v, row |-> i]})

\* With no row of the last hour, or having looked before another replica inserted
\* one (VisitCounting).
AddInserts(v) ==
    /\ BagCardinality(log) < MaxVisits /\ Len(rows) < MaxRows
    /\ rows' = Append(rows, Insert(v))
    /\ Log(v, Len(rows) + 1)

AddUpdates(v, i) ==
    /\ BagCardinality(log) < MaxVisits
    /\ i \in GetLastHour
    /\ rows' = [rows EXCEPT ![i] = Update(@, v)]
    /\ Log(v, i)

\* Rows get older in the order of their ids.
Elapse(i) ==
    /\ \E age \in Age :
           /\ age > rows[i].age
           /\ \A j \in 1 .. i - 1 : rows[j].age >= age
           /\ rows' = [rows EXCEPT ![i].age = age]
    /\ UNCHANGED log

-------------------------------------------------------------------------------
(* UrlService.Convert *)

InWindow(w, age) ==
    CASE w = "LastDay" -> age <= 1
      [] w = "LastWeek" -> age <= 7
      [] w = "LastMonth" -> age <= 30
      [] w = "AllTime" -> TRUE

Shown(w) == {i \in DOMAIN rows : InWindow(w, rows[i].age)}

SumOver(f, shown) == FoldFunctionOnSet(+, 0, f, shown)
Merged(f, shown) == FoldFunctionOnSet((+), EmptyBag, f, shown)

Restricted(bag, keys) == [k \in BagToSet(bag) \intersect keys |-> bag[k]]

\* The names IsWindows, IsLinux and IsMacOs know.
Variants ==
    [Windows |-> {"Windows 10", "HP-UX"}, Linux |-> {"Linux", "Debian"}, MacOs |-> {"Mac OS X"}]

\* What the calls of AddPlatforms for these types take out of the names of a row.
Taken(row) ==
    UNION {Variants[t] : t \in {u \in DOMAIN Variants : row.platformTypes[u] > 0}}

\* Ios and Android pass no names; Other gets what is left.
VariantsOf(row, t) ==
    IF row.platformTypes[t] = 0 \/ t \in {"Ios", "Android"} THEN EmptyBag
    ELSE Restricted(row.platforms,
                    IF t = "Other" THEN BagToSet(row.platforms) \ Taken(row) ELSE Variants[t])

\* browserName of AddBrowser.
BrowserName ==
    [Chrome |-> "Chrome", Edge |-> "Edge", Firefox |-> "Firefox",
     InternetExplorer |-> "Internet Explorer", Opera |-> "Opera", Safari |-> "Safari"]

KeysOf(row, t) ==
    LET named(u) == {k \in BagToSet(row.browsers) : k.name = BrowserName[u]}
        counted == {u \in DOMAIN BrowserName : row.browserTypes[u] > 0}
    IN IF row.browserTypes[t] = 0 THEN {}
       ELSE IF t = "Other" THEN BagToSet(row.browsers) \ UNION {named(u) : u \in counted}
       ELSE named(t)

\* The counts of a type's browsers by version.
VersionsOf(row, t) ==
    LET keys == KeysOf(row, t)
    IN [version \in {k.version : k \in keys} |->
           SumOver(row.browsers, {k \in keys : k.version = version})]

\* versions.Add throws when two browsers of one type have the same version.
Throws(row) ==
    \E t \in BrowserType, k, l \in BagToSet(row.browsers) :
        {k, l} \subseteq KeysOf(row, t) /\ k # l /\ k.version = l.version

AddTypes(shown) ==
    [t \in UserAgentType |->
        SumOver([i \in {j \in shown : rows[j].types[t] > 0} |-> rows[i].types["Browser"]],
                {j \in shown : rows[j].types[t] > 0})]

AddCountries(shown) == Merged([i \in shown |-> rows[i].countries], shown)
AddReferrers(shown) == Merged([i \in shown |-> rows[i].referrers], shown)

\* The figures of a window.
Figures(w) ==
    LET shown == Shown(w)
    IN [views |-> SumOver([i \in shown |-> rows[i].total], shown),
        types |-> AddTypes(shown),
        platforms |-> [t \in PlatformType |->
            [views |-> SumOver([i \in shown |-> rows[i].platformTypes[t]], shown),
             variants |-> Merged([i \in shown |-> VariantsOf(rows[i], t)], shown)]],
        browsers |-> [t \in BrowserType |->
            [views |-> SumOver([i \in shown |-> rows[i].browserTypes[t]], shown),
             versions |-> Merged([i \in shown |-> VersionsOf(rows[i], t)], shown)]],
        countries |-> AddCountries(shown),
        referrers |-> AddReferrers(shown)]

\* Each request converts all rows: one that throws fails the request.
ConvertThrows == \E i \in DOMAIN rows : Throws(rows[i])

-------------------------------------------------------------------------------
Next ==
    \/ \E v \in Visits : AddInserts(v)
    \/ \E v \in Visits, i \in DOMAIN rows : AddUpdates(v, i)
    \/ \E i \in DOMAIN rows : Elapse(i)

Spec == Init /\ [][Next]_vars

-------------------------------------------------------------------------------
(* Properties *)

\* Types of the rows' columns; a row has at least its first visit.
TypeOK ==
    /\ \A i \in DOMAIN rows :
           /\ rows[i].total \in Nat \ {0} /\ rows[i].age \in Age
           /\ rows[i].types \in Counts(UserAgentType)
           /\ rows[i].platformTypes \in Counts(PlatformType)
           /\ rows[i].browserTypes \in Counts(BrowserType)
           /\ IsABag(rows[i].platforms) /\ IsABag(rows[i].browsers)
           /\ IsABag(rows[i].countries) /\ IsABag(rows[i].referrers)
    /\ IsABag(log)
    /\ \A e \in BagToSet(log) : e.visit \in Visits /\ e.row \in DOMAIN rows

\* How many of the visits that a window's rows took satisfy a condition.
Seen(w, Is(_)) ==
    LET entries == {e \in BagToSet(log) : e.row \in Shown(w) /\ Is(e.visit)}
    IN FoldFunctionOnSet(+, 0, log, entries)

\* The counts of a figure agree with the visits, each key in turn.
CountsVisits(w, bag, Of(_)) ==
    /\ \A v \in Visits : Of(v) # None =>
           LET seen == Seen(w, LAMBDA u : Of(u) = Of(v))
           IN IF BagIn(Of(v), bag) THEN bag[Of(v)] = seen ELSE seen = 0
    /\ BagToSet(bag) \subseteq {Of(v) : v \in Visits}

\* Whatever visits share a row, the figures an owner gets say how many visits came
\* with each platform, system variant, browser, browser version, country and
\* referrer.  (Robots and unknown agents are left out: AddTypes adds the count of
\* browsers for them.  So are the variants of Other, among which Update counts
\* Android and iOS.)
FiguresAreTrue ==
    ~ConvertThrows => \A w \in Windows :
        LET figures == Figures(w)
        IN /\ figures.views = Seen(w, LAMBDA v : TRUE)
           /\ figures.types["Browser"] = Seen(w, LAMBDA v : v.agent.type = "Browser")
           /\ \A t \in PlatformType :
                  figures.platforms[t].views = Seen(w, LAMBDA v : v.agent.platform.type = t)
           /\ \A t \in DOMAIN Variants :
                  CountsVisits(w, figures.platforms[t].variants, LAMBDA v :
                      IF v.agent.platform.type = t THEN v.agent.platform.name ELSE None)
           /\ \A t \in BrowserType :
                  /\ figures.browsers[t].views = Seen(w, LAMBDA v : v.agent.browser.type = t)
                  /\ CountsVisits(w, figures.browsers[t].versions, LAMBDA v :
                         IF v.agent.browser.type = t THEN v.agent.browser.version ELSE None)
           /\ CountsVisits(w, figures.countries, LAMBDA v : v.country)
           /\ CountsVisits(w, figures.referrers, LAMBDA v : v.referrer)

\* A step that logs a visit raises all four figures, any other keeps the all-time one.
Shows ==
    /\ log' # log => \A w \in Windows : Figures(w).views' = Figures(w).views + 1
    /\ log' = log => Figures("AllTime")' = Figures("AllTime")

\* A visit shows at once in all four figures, since it is counted in a row young
\* enough for each, and time never takes one out of the all-time figure.
VisitsShowAtOnce == [][Shows]_vars

\* The owner always gets figures (README.md:13).
StatisticsAreAvailable == ~ConvertThrows
===============================================================================
