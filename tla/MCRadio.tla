---- MODULE MCRadio ----
EXTENDS RadioDirectory, RadioBrowser, BbcPlugin

H(name) == <<"http", name>>
M(name) == <<"mms", name>>
L(key, url) == [key |-> key, url |-> url]
K(key) == [key |-> key, url |-> <<"">>]
Doc(ctype, body) == [reply |-> "ok", to |-> <<"">>, ctype |-> ctype, body |-> body,
                     read |-> Len(body), trusted |-> TRUE, ends |-> TRUE]
Stream(ctype) == Doc(ctype, <<K("bytes")>>)
MCWeb ==
  LET W == [s1 |-> Stream("audio/mpeg"), s2 |-> Stream("audio/ogg"), untyped |-> Stream("none"),
            icy |-> [Stream("none") EXCEPT !.reply = "icy"],
            moved |-> [Stream("none") EXCEPT !.reply = "mms", !.to = M("s3")],
            pls |-> Doc("audio/x-scpls", <<K("[playlist]"), L("File", H("s1")), L("File", H("s2"))>>),
            badpls |-> Doc("text/plain", <<K("[playlist]"), K("File without =")>>),
            m3u |-> Doc("audio/x-mpegurl", <<K("#EXTM3U"), L("relative", H("pls"))>>),
            list |-> Doc("text/plain", <<L("url", H("s2")), L("text", H("gone"))>>),
            text |-> Doc("text/plain", <<L("text", H("gone")), L("url", H("s2"))>>),
            hls |-> Doc("application/vnd.apple.mpegurl", <<K("#EXTM3U"), L("url", H("s2"))>>),
            asx |-> Doc("video/x-ms-asf", <<K("<asx"), L("asf", H("s4"))>>),
            upper |-> Doc("video/x-ms-asf", <<K("<asx"), L("HREF", H("s1"))>>),
            asf |-> Doc("video/x-ms-asf", <<K("[reference]"), L("Ref", H("s1"))>>),
            xspf |-> Doc("application/xspf+xml", <<L("location", H("m3u"))>>),
            ram |-> Doc("audio/x-pn-realaudio", <<L("url", H("s1"))>>),
            none |-> Doc("audio/x-scpls", <<K("[playlist]")>>),
            self |-> [Doc("audio/x-scpls", <<L("File", H("pls")), L("File", H("s1"))>>) EXCEPT !.trusted = FALSE],
            loop |-> Doc("audio/x-scpls", <<L("File", H("loop"))>>),
            live |-> [Doc("audio/mpegurl", <<L("bytes", H("gone")), L("url", H("s1"))>>) EXCEPT !.ends = FALSE]]
  IN  [u \in {H(n) : n \in DOMAIN W} |-> W[u[2]]]
MCMeant ==
  LET T == [s1 |-> H("s1"), s2 |-> H("s2"), untyped |-> H("untyped"), icy |-> H("icy"), moved |-> M("s3"),
            pls |-> H("s1"), badpls |-> H("s1"), m3u |-> H("s1"), list |-> H("s2"), text |-> H("s2"), hls |-> H("hls"),
            asx |-> M("s4"), upper |-> H("s1"), asf |-> H("s1"), xspf |-> H("s1"), ram |-> H("s1"),
            none |-> <<"">>, self |-> H("s1"), loop |-> <<"">>, live |-> H("s1")]
  IN  [u \in {H(n) : n \in DOMAIN T} \cup {M("s5")} |-> IF u = M("s5") THEN u ELSE T[u[2]]]
MCReliable == {M("s4"), M("s5")} \cup {H(n) : n \in {"s1", "icy", "moved", "pls", "m3u", "hls", "asx", "xspf"}}
MCFlaky == {H("s2")}
MCIntOf == ("0" :> 0) @@ ("2" :> 2)
MCLower == ("URL" :> "url") @@ ("FM" :> "fm")

Radio(t) == <<"[", "radio", t, "]">>
Url(name) == <<"url", "=", "http", name>>
MCConfs ==
  << \* one thread at a time; a section in two parts, which the main file has without regard to case
    [lines |-> << << <<"upradiosmaxthreads", "=", "0">>, Radio("fm"), Url("badpls"), <<"#", "url">>, Radio("b"),
                     Url("m3u"), Radio("FM"), <<"URL", "=", "\\">>, <<"http", "pls">> >>,
                  << Radio("c"), Url("list") >> >>,
     stations |-> << << <<"fm">>, H("pls")>>, << <<"b">>, H("m3u")>>, << <<"FM">>, H("pls")>>, << <<"c">>, H("list")>> >>,
     ends |-> TRUE],
    \* two threads at a time, and other sections; what the decoders do not read
    [lines |-> << << <<"upradiosmaxthreads", "=", "2">>, Radio("a"), Url("ram"), Radio("b"), Url("xspf"),
                     <<"[", "other", "]">>, Url("s1"), Radio("c"), Url("text"), Radio("d") >>,
                  << Radio("b"), <<"URL", "=", "http", "upper">>, <<"url", "=", "mms", "s5">>, Radio("e"), Url("asf") >> >>,
     stations |-> << << <<"a">>, H("ram")>>, << <<"b">>, H("xspf")>>, << <<"c">>, H("text")>>, << <<"d">>, <<"">> >>,
                     << <<"b">>, M("s5")>>, << <<"e">>, H("asf")>> >>,
     ends |-> TRUE],
    \* as many threads as radios
    [lines |-> << << Radio("a"), Url("asx"), Radio("b"), Url("self"), Radio("c"), Url("untyped"), Radio("d"), Url("moved") >>,
                  << Radio("a"), Url("icy"), Radio("b"), Url("none"), Radio("c"), Url("hls") >> >>,
     stations |-> << << <<"a">>, H("asx")>>, << <<"b">>, H("self")>>, << <<"c">>, H("untyped")>>, << <<"d">>, H("moved")>>,
                     << <<"a">>, H("icy")>>, << <<"b">>, H("none")>>, << <<"c">>, H("hls")>> >>,
     ends |-> TRUE],
    \* a playlist which leads to itself, and one which never ends
    [lines |-> << << Radio("a"), Url("s2"), Radio("b"), Url("loop") >>, << >> >>,
     stations |-> << << <<"a">>, H("s2")>>, << <<"b">>, H("loop")>> >>,
     ends |-> FALSE],
    [lines |-> << << Radio("a"), Url("s2"), Radio("b"), Url("live") >>, << >> >>,
     stations |-> << << <<"a">>, H("s2")>>, << <<"b">>, H("live")>> >>,
     ends |-> FALSE] >>

\* What the proofs ask of the configurations, of the web, of the names and of the pages.
ASSUME ConfsAssumption == ConfsAsMeant
ASSUME WebAssumption == LeadsAsMeant

MCStations ==
  {[uuid |-> "r1", name |-> "one", tags |-> {"rock", "80s"}, countrycode |-> "FR", language |-> "french", codec |-> "aac+"],
   [uuid |-> "r2", name |-> "two", tags |-> {"rock", "80s/90s"}, countrycode |-> "FR", language |-> "", codec |-> "ogg"],
   [uuid |-> "r3", name |-> "one", tags |-> {}, countrycode |-> "XX", language |-> "french", codec |-> "mp3"]}
MCSplitValue == "80s/90s" :> <<"80s", "90s">>
ASSUME NamesAssumption == PlainNames

\* The BBC: a day with a repeated programme, another, and a podcast.
MCDays == << <<"y", "m", "d1">>, <<"y", "m", "d2">> >>
MCstations == << <<"s1">> >>
MCPodcasts == << <<"p1">> >>
MCProgrammes == <<"station", "s1", "y", "m", "d1">> :> <<"a", "b", "a", "c", "d", "e">>
                @@ <<"station", "s1", "y", "m", "d2">> :> <<"f", "c">>
                @@ <<"podcast", "p1">> :> <<"c", "no pid", "b", "f", "e", "d">>
MCVersions == [a |-> <<"audio">>, b |-> <<"no media", "audio">>, c |-> <<"no media">>, d |-> <<"no audio", "audio">>,
               e |-> <<"audio">>, f |-> <<"audio", "audio">>]
ASSUME PagesAssumption == PagesOfProgrammes

\* One of the three plugins is enabled: they share nothing.
vars == <<dirvars, rbvars, bbcvars>>
Init == (DirInit /\ RbOff /\ BbcOff) \/ (DirOff /\ RbInit /\ BbcOff) \/ (DirOff /\ RbOff /\ BbcInit)
Next ==
  \/ DirNext /\ UNCHANGED <<rbvars, bbcvars>>
  \/ RbNext /\ UNCHANGED <<dirvars, bbcvars>>
  \/ BbcNext /\ UNCHANGED <<dirvars, rbvars>>
Spec == Init /\ [][Next]_vars /\ DirFairness

\* StreamDecoder.py:139, when there is no content type: "Couldn't read content-type. Maybe direct
\* stream..." is followed by the answer that the address is the stream.
UntypedIsDirect ==
  \A i \in DOMAIN threads : threads[i].doing = "done" /\ threads[i].uri \in DOMAIN Web
     /\ Web[threads[i].uri].ctype = "none" => threads[i].info.kind = "stream"
====
