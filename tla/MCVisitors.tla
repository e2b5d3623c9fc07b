------------------------------ MODULE MCVisitors ------------------------------
(* Visits for the model-checking instances of ViewStats. *)

None == "none"

Platform(type, name) == [type |-> type, name |-> name]
Browser(type, name, version) == [type |-> type, name |-> name, version |-> version]

Visit(type, platform, browser, country, referrer) ==
    [agent |-> [type |-> type, platform |-> platform, browser |-> browser],
     country |-> country, referrer |-> referrer]

NoPlatform == Platform(None, None)
NoBrowser == Browser(None, None, None)

\* Two desktops, a telephone, a system and a browser without columns of their own,
\* and an agent the parser knows nothing of.
Visitors ==
    {Visit("Browser", Platform("Windows", "Windows 10"), Browser("Chrome", "Chrome", "1"), "A", "x"),
     Visit("Browser", Platform("Linux", "Linux"), Browser("Chrome", "Chrome", "2"), "A", None),
     Visit("Browser", Platform("Android", "Android"), Browser("Safari", "Safari", "1"), "B", "y"),
     Visit("Browser", Platform("Other", "BeOS"), Browser("Other", "NetPositive", "2"), "B", "x"),
     Visit("Unknown", NoPlatform, NoBrowser, "A", None)}

\* Robots have a name and no version, which is kept as "unknown".
Robots ==
    {Visit("Robot", NoPlatform, Browser("Other", name, "unknown"), "A", None) :
        name \in {"Googlebot", "Bingbot"}}

Everybody == Visitors \union Robots
===============================================================================
