---------------------------- MODULE MCBottleSearch ----------------------------
(* Two bottles to start with, one pulled and signed and with a second digest;  *)
(* two more that arrive while the pages are read, one deprecating the first.   *)
EXTENDS BottleSearch, MCDocuments

SearchContents == {"one", "two", "new", "fix", "man", "get", "sig"}
SearchBottles == {"one", "two", "new", "fix"}
Sha2(c) == <<c, "sha512">>
SearchDoc ==
  ("man" :> Manifest(Sha("one"), 1)) @@ ("get" :> Event(Sha("man"))) @@
  ("sig" :> Signature(Sha("man"), Sha("one"), <<TRUE>>)) @@
  [c \in SearchBottles |-> Bottle({}, 1)]
SearchSources == [c \in SearchContents |-> {}]
SearchDeprecates ==
  [c \in SearchContents |-> IF c = "fix" THEN {Sha("one")} ELSE {}]
Label(k, v) == [key |-> k, value |-> v]
Metric(n, v) == [name |-> n, value |-> v]
Plain == [labels |-> {}, metrics |-> {}, authors |-> {}, words |-> {},
          parts |-> {}, repository |-> "", pull |-> FALSE, signed |-> {}]
SearchAbout ==
  [c \in SearchContents |->
     CASE c = "one" -> [Plain EXCEPT !.labels = {Label("k", "7"), Label("x", "a")},
                          !.metrics = {Metric("acc", 3), Metric("loss", 1)}]
       [] c = "two" -> [Plain EXCEPT !.labels = {Label("k", "a"), Label("x", "7.5")},
                          !.metrics = {Metric("acc", 2)}, !.authors = {"ann"}]
       [] c = "new" -> [Plain EXCEPT !.labels = {Label("x", "7")}, !.parts = {"p"},
                          !.metrics = {Metric("acc", 1)}]
       [] c = "fix" -> [Plain EXCEPT !.metrics = {Metric("acc", 2)}, !.words = {"w"},
                          !.labels = {Label("k", "a"), Label("x", "7")}]
       [] c = "get" -> [Plain EXCEPT !.pull = TRUE, !.repository = "reg"]
       [] c = "sig" -> [Plain EXCEPT !.signed = {[key |-> "ann", note |-> "n"]}]
       [] OTHER -> Plain]
\* Numbers are counted in halves.
SearchNumberOf == ("7" :> {14}) @@ ("7.5" :> {15}) @@ ("a" :> {})
SearchIntegerOf == ("7" :> {14}) @@ ("7.5" :> {}) @@ ("a" :> {})
SearchKnown == {Sha(c) : c \in SearchContents}
SearchOffered == {Sha2("one")}
SearchStart == {"one", "two", "man", "get", "sig"}

Search == [selectors |-> {}, author |-> "", words |-> {}, repository |-> "",
        key |-> "", notes |-> {}, parentsOf |-> NoDigest, childrenOf |-> NoDigest,
        deprecatedBy |-> NoDigest, deprecates |-> NoDigest,
        showDeprecated |-> FALSE, parts |-> {}, metrics |-> {}, sortBy |-> "",
        ascending |-> FALSE, limit |-> 0, bottle |-> NoDigest]
Req(key, op, values, bound) ==
  [key |-> key, op |-> op, values |-> values, bound |-> bound]
Sorted == [Search EXCEPT !.sortBy = "acc", !.limit = 1]
SearchAsked ==
  {Sorted,
   [Sorted EXCEPT !.ascending = TRUE, !.limit = 2, !.showDeprecated = TRUE,
      !.selectors = {{Req("k", "exists", {}, 0), Req("k", "notin", {"7"}, 0)},
                     {Req("x", "gt", {}, 10), Req("k", "absent", {}, 0)}}],
   [Search EXCEPT !.selectors = {{Req("x", "absent", {}, 0), Req("k", "in", {"7", "a"}, 0)},
                                 {Req("x", "exists", {}, 0), Req("k", "in", {"7"}, 0)}},
      !.key = "ann", !.repository = "reg"],
   [Search EXCEPT !.deprecates = Sha("one"), !.parts = {"p"}, !.bottle = Sha("one"),
      !.selectors = {{Req("x", "lt", {}, 16)}}]}
SearchMalformed == {[Search EXCEPT !.author = "malformed"]}
SearchAll == SearchAsked \cup SearchMalformed

=============================================================================
