------------------------- MODULE StreamPluginProofs -------------------------
(***************************************************************************)
(* For any users, catalogues, places and numbers of answered requests: a   *)
(* session which is logged in is that of one user, what the HRA plugin     *)
(* lists with a login comes from a session renewed in time, and every      *)
(* entry that a plugin shows leads back to what it was made for.           *)
(***************************************************************************)
EXTENDS StreamPlugin, FiniteSetTheorems, SequenceTheorems, WellFoundedInduction, TLAPS

-----------------------------------------------------------------------------
(* The inductive invariant *)

Users == {Configured, "nobody"} \cup CredsUsers
Session == [on : BOOLEAN, api : BOOLEAN, s4 : BOOLEAN, age : {"fresh", "old", "expired"}, user : Users, token : Users]

\* The user and the token of a session belong together.  A Deezer session takes its token
\* before it asks who the user is: that is only right because a session which is not logged
\* in remembers no user.
OneUser(s) ==
    /\ s.on /\ service # "spotify" => s.user \in {s.token, "nobody"}
    /\ ~s.on /\ service = "deezer" => s.user = "nobody"
    /\ s.on /\ service = "hra" => s.user = Configured

\* The entries of a listing, and the session which served them.
Served(entries, as) ==
    service = "hra" /\ entries # <<>>
      /\ (\A e \in ToSet(entries) : e.to.view \notin {"root", "edplaylist_view"})
    => as.on /\ as.age = "fresh" /\ as.user = Configured

Fixed ==
    /\ service \in {"qobuz", "tidal", "hra", "deezer", "spotify"}
    /\ creds \in Users
    /\ service \notin {"qobuz", "tidal"} => creds = "nobody"

File(f) == service = "deezer" => f \in Users

\* ListsWithFreshSession says nothing of the listing in the cache, which a later browse shows.
IInv ==
    /\ Fixed
    /\ session \in Session /\ OneUser(session) /\ File(file)
    /\ Served(cache.entries, cache.as)
    /\ answer.asked \in {"browse", "trackuri"} => Served(answer.entries, answer.as)

LoggedOutOK == LoggedOut \in Session /\ OneUser(LoggedOut)
LEMMA Start == LoggedOutOK
BY DEF LoggedOutOK, LoggedOut, Session, Users, OneUser

-----------------------------------------------------------------------------
(* The logins *)

LEMMA QobuzKeeps ==
    ASSUME NEW s \in Session, OneUser(s), service = "qobuz",
           NEW user \in Users, NEW net, NEW account, NEW app
    PROVE  QobuzLogin(s, user, net, account, app).session \in Session
           /\ OneUser(QobuzLogin(s, user, net, account, app).session)
<1>1. ASSUME NEW t \in Session, t.on = FALSE, NEW n, NEW acc
      PROVE  user_login(t, user, n, acc, app).session \in Session
             /\ OneUser(user_login(t, user, n, acc, app).session)
    <2>1. CASE acc = "refused"
        BY <1>1, <2>1 DEF user_login, Session, OneUser, Users
    <2>2. CASE acc = "free"
        BY <1>1, <2>2 DEF user_login, Session, OneUser, Users
    <2>3. CASE acc \notin {"refused", "free"}
        BY <1>1, <2>3 DEF user_login, Session, OneUser, Users
    <2>. QED BY <2>1, <2>2, <2>3
<1>2. LET t == [s EXCEPT !.api = TRUE, !.s4 = @ \/ app = "configured"] IN t \in Session /\ t.on = s.on
    BY DEF Session
<1>3. CASE s.on
    BY <1>3 DEF QobuzLogin
<1>4. CASE ~s.on
    BY <1>1, <1>2, <1>4 DEF QobuzLogin, Session
<1>. QED BY <1>3, <1>4

LEMMA TidalKeeps ==
    ASSUME NEW s \in Session, OneUser(s), service = "tidal",
           NEW user \in Users, NEW net \in Nat, NEW account
    PROVE  TidalLogin(s, user, net, account).session \in Session
           /\ OneUser(TidalLogin(s, user, net, account).session)
<1> DEFINE who == IF net > 0 /\ account # "refused" THEN user ELSE "nobody"
           t == [s EXCEPT !.on = TidalAnswers(1, net), !.user = who, !.token = who]
<1>1. who \in Users /\ TidalAnswers(1, net) \in BOOLEAN
    BY DEF Users, TidalAnswers
<1>2. CASE s.on
    BY <1>2 DEF TidalLogin
<1>3. CASE ~s.on
    <2>1. TidalLogin(s, user, net, account).session = t
        BY <1>3 DEF TidalLogin
    <2> HIDE DEF who
    <2>2. t \in Session /\ t.user = who /\ t.token = who
        BY <1>1 DEF Session
    <2>3. OneUser(t)
        BY <2>2 DEF OneUser
    <2>. QED BY <2>1, <2>2, <2>3
<1>. QED BY <1>2, <1>3

\* A session which HRAAPI.isloggedin() keeps is fresh.
LEMMA HraRenewKeeps ==
    ASSUME NEW s \in Session, NEW net \in Nat
    PROVE  LET r == HraRenew(s, net)
           IN  /\ r.session \in Session /\ r.net \in Nat
               /\ r.session.user = s.user /\ r.session.token = s.token
               /\ r.session.on => s.on /\ r.session.age = "fresh"
<1>1. CASE ~s.on \/ s.age = "fresh"
    BY <1>1 DEF HraRenew, Session
<1>2. CASE s.on /\ s.age = "old" /\ net > 0
    <2>1. [s EXCEPT !.age = "fresh"] \in Session /\ net - 1 \in Nat
        BY <1>2 DEF Session
    <2>. QED BY <1>2, <2>1 DEF HraRenew, Session
<1>3. CASE s.on /\ ~(s.age = "fresh" \/ (s.age = "old" /\ net > 0))
    <2>1. [s EXCEPT !.on = FALSE] \in Session
        BY DEF Session
    <2>2. (IF net > 0 THEN net - 1 ELSE 0) \in Nat
        OBVIOUS
    <2>. QED BY <1>3, <2>1, <2>2 DEF HraRenew, Session
<1>. QED BY <1>1, <1>2, <1>3

LEMMA HraKeeps ==
    ASSUME NEW s \in Session, OneUser(s), service = "hra", NEW net \in Nat, NEW account
    PROVE  LET r == HraLogin(s, Configured, net, account)
           IN  /\ r.session \in Session /\ r.net \in Nat /\ OneUser(r.session)
               /\ r.session.on => r.session.age = "fresh"
<1> DEFINE t == [s EXCEPT !.api = TRUE]
           r == HraRenew(t, net)
           left == IF r.net > 0 THEN r.net - 1 ELSE 0
           in == [r.session EXCEPT !.on = TRUE, !.age = "fresh", !.user = Configured, !.token = Configured]
           out == [r.session EXCEPT !.user = "nobody"]
           l == HraLogin(s, Configured, net, account)
<1>1. t \in Session /\ t.on = s.on /\ t.user = s.user /\ t.token = s.token
    BY DEF Session
<1> HIDE DEF t
<1>2. /\ r.session \in Session /\ r.net \in Nat
      /\ r.session.user = s.user /\ r.session.token = s.token
      /\ r.session.on => s.on /\ r.session.age = "fresh"
    BY <1>1, HraRenewKeeps
<1>3. l = IF r.session.on THEN r
          ELSE IF HraAnswers(r.net) /\ account # "refused" THEN [session |-> in, net |-> left]
          ELSE [session |-> out, net |-> left]
    BY DEF HraLogin, t
<1> SUFFICES /\ l.session \in Session /\ l.net \in Nat /\ OneUser(l.session)
             /\ l.session.on => l.session.age = "fresh"
    OBVIOUS
<1> HIDE DEF r, l
<1>4. left \in Nat
    BY <1>2
<1>5. in \in Session /\ in.age = "fresh" /\ OneUser(in)
    BY <1>2 DEF Session, Users, OneUser
<1>6. out \in Session /\ (~r.session.on => OneUser(out) /\ ~out.on)
    BY <1>2 DEF Session, Users, OneUser
<1> HIDE DEF left, in, out
<1>7. CASE r.session.on
    <2>1. OneUser(r.session)
        BY <1>2, <1>7 DEF OneUser
    <2>. QED BY <1>2, <1>3, <1>7, <2>1
<1>8. CASE ~r.session.on
    BY <1>3, <1>4, <1>5, <1>6, <1>8
<1>. QED BY <1>7, <1>8

LEMMA DeezerKeeps ==
    ASSUME NEW s \in Session, OneUser(s), service = "deezer", NEW tokenfile \in Users,
           NEW user \in Users, NEW net \in Nat, NEW account
    PROVE  LET r == DeezerLogin(s, user, net, account, tokenfile)
           IN  r.session \in Session /\ r.file \in Users /\ r.net \in Nat /\ OneUser(r.session)
<1> DEFINE asks == tokenfile = "nobody"
           who == IF asks THEN user ELSE tokenfile
           left == IF asks THEN net - 1 ELSE net
           on == [s EXCEPT !.on = TRUE, !.token = who]
           refused == [s EXCEPT !.user = "nobody", !.token = "nobody"]
           r == DeezerLogin(s, user, net, account, tokenfile)
<1>1. CASE s.on
    BY <1>1 DEF DeezerLogin
<1>2. CASE ~s.on /\ asks /\ net = 0
    BY <1>2 DEF DeezerLogin
<1>3. CASE ~s.on /\ asks /\ net > 0 /\ account = "refused"
    <2>1. refused \in Session /\ refused.user = "nobody" /\ refused.on = s.on
        BY DEF Session, Users
    <2>2. OneUser(refused) /\ left \in Nat
        BY <1>3, <2>1 DEF OneUser
    <2>. QED BY <1>3, <2>1, <2>2 DEF DeezerLogin
<1>4. CASE ~s.on /\ (~asks \/ (net > 0 /\ account # "refused"))
    <2>1. left \in Nat /\ who \in Users
        BY <1>4
    <2>2. on \in Session /\ on.token = who /\ on.user = "nobody"
        BY <1>4, <2>1 DEF Session, OneUser
    <2>3. [on EXCEPT !.user = who] \in Session /\ OneUser([on EXCEPT !.user = who]) /\ OneUser(on)
        BY <2>1, <2>2 DEF Session, OneUser
    <2>4. r = CASE left = 0 -> [session |-> on, file |-> who, net |-> 0, raised |-> TRUE]
                [] left > 0 /\ account = "anonymous" ->
                     [session |-> on, file |-> who, net |-> left - 1, raised |-> FALSE]
                [] left > 0 /\ account # "anonymous" ->
                     [session |-> [on EXCEPT !.user = who], file |-> who, net |-> left - 1, raised |-> FALSE]
        BY <1>4 DEF DeezerLogin
    <2> HIDE DEF r, left, who, on
    <2>5. CASE left = 0
        BY <2>1, <2>2, <2>3, <2>4, <2>5 DEF r
    <2>6. CASE left > 0 /\ account = "anonymous"
        BY <2>1, <2>2, <2>3, <2>4, <2>6 DEF r
    <2>7. CASE left > 0 /\ account # "anonymous"
        BY <2>1, <2>2, <2>3, <2>4, <2>7 DEF r
    <2>. QED BY <2>1, <2>5, <2>6, <2>7
<1>. QED BY <1>1, <1>2, <1>3, <1>4

LEMMA SpotifyKeeps ==
    ASSUME NEW s \in Session, OneUser(s), service = "spotify", NEW user \in Users
    PROVE  SpotifyLogin(s, user) \in Session /\ OneUser(SpotifyLogin(s, user))
BY DEF SpotifyLogin, Session, Users, OneUser

LEMMA LoginKeeps ==
    ASSUME Fixed, NEW s \in Session, OneUser(s), NEW f, File(f), NEW user \in Users,
           service = "hra" => user = Configured, NEW net \in Nat, NEW account
    PROVE  LET r == LoginAs(s, f, user, net, account)
           IN  /\ r.session \in Session /\ OneUser(r.session) /\ File(r.file) /\ r.net \in Nat
               /\ service = "hra" /\ r.session.on => r.session.age = "fresh"
<1>1. (IF net > 0 THEN net - 1 ELSE 0) \in Nat
    OBVIOUS
<1>2. CASE service = "qobuz"
    <2>1. LoginAs(s, f, user, net, account).session = QobuzLogin(s, user, net, account, appid).session
        BY <1>2 DEF LoginAs
    <2>2. /\ LoginAs(s, f, user, net, account).file = f
          /\ LoginAs(s, f, user, net, account).net = IF s.on THEN net ELSE IF net > 0 THEN net - 1 ELSE 0
        BY <1>2 DEF LoginAs
    <2>. QED BY <1>1, <1>2, <2>1, <2>2, QobuzKeeps
<1>3. CASE service = "tidal"
    <2>1. LoginAs(s, f, user, net, account).session = TidalLogin(s, user, net, account).session
        BY <1>3 DEF LoginAs
    <2>2. /\ LoginAs(s, f, user, net, account).file = f
          /\ LoginAs(s, f, user, net, account).net = IF s.on THEN net ELSE IF net > 0 THEN net - 1 ELSE 0
        BY <1>3 DEF LoginAs
    <2>. QED BY <1>1, <1>3, <2>1, <2>2, TidalKeeps
<1>4. CASE service = "hra"
    <2>1. LoginAs(s, f, user, net, account).session = HraLogin(s, user, net, account).session
        BY <1>4 DEF LoginAs
    <2>2. /\ LoginAs(s, f, user, net, account).file = f
          /\ LoginAs(s, f, user, net, account).net = HraLogin(s, user, net, account).net
        BY <1>4 DEF LoginAs
    <2>. QED BY <1>4, <2>1, <2>2, HraKeeps
<1>5. CASE service = "deezer"
    <2>1. LoginAs(s, f, user, net, account) = DeezerLogin(s, user, net, account, f)
        BY <1>5 DEF LoginAs
    <2>. QED BY <1>5, <2>1, DeezerKeeps DEF File
<1>6. CASE service = "spotify"
    <2>1. /\ LoginAs(s, f, user, net, account).session = SpotifyLogin(s, user)
          /\ LoginAs(s, f, user, net, account).file = f
          /\ LoginAs(s, f, user, net, account).net = net
        BY <1>6 DEF LoginAs
    <2>. QED BY <1>6, <2>1, SpotifyKeeps
<1>. QED BY <1>2, <1>3, <1>4, <1>5, <1>6 DEF Fixed

LEMMA StartedKeeps ==
    ASSUME IInv, NEW net \in Nat, NEW account
    PROVE  LET r == Started(net, account)
           IN  r.session \in Session /\ OneUser(r.session) /\ File(r.file) /\ r.net \in Nat
<1>1. CASE proc = "up"
    BY <1>1 DEF Started, IInv
<1>2. CASE proc # "up" /\ (creds = "nobody" \/ service \notin {"qobuz", "tidal"})
    BY <1>2, Start DEF Started, IInv, LoggedOutOK
<1>3. CASE proc # "up" /\ ~(creds = "nobody" \/ service \notin {"qobuz", "tidal"})
    <2> DEFINE r == LoginAs(LoggedOut, file, creds, net, account)
    <2>1. r.session \in Session /\ OneUser(r.session) /\ File(r.file) /\ r.net \in Nat
        BY <1>3, Start, LoginKeeps DEF IInv, LoggedOutOK, Fixed
    <2>2. Started(net, account) = [session |-> r.session, file |-> r.file, net |-> r.net]
        BY <1>3 DEF Started
    <2> HIDE DEF r
    <2>. QED BY <2>1, <2>2
<1>. QED BY <1>1, <1>2, <1>3

LEMMA ReadyKeeps ==
    ASSUME IInv, NEW net \in Nat, NEW account
    PROVE  LET r == Ready(net, account)
           IN  /\ r.session \in Session /\ OneUser(r.session) /\ File(r.file) /\ r.net \in Nat
               /\ service = "hra" /\ r.session.on => r.session.age = "fresh"
<1> DEFINE st == Started(net, account)
<1>1. st.session \in Session /\ OneUser(st.session) /\ File(st.file) /\ st.net \in Nat
    BY StartedKeeps
<1> HIDE DEF st
<1>2. Configured \in Users /\ Fixed
    BY DEF Users, IInv
<1>3. Ready(net, account) = LoginAs(st.session, st.file, Configured, st.net, account)
    BY DEF Ready, st
<1>. QED BY <1>1, <1>2, <1>3, LoginKeeps

LEMMA NetType == NetNow \subseteq Nat
<1>1. Most \in Nets
    BY NetsAssumption DEF Most
<1>. QED BY <1>1, NetsAssumption DEF NetNow

-----------------------------------------------------------------------------
(* The listings of the HRA plugin *)

LEMMA LeastNat ==
    ASSUME NEW T, T \subseteq Nat, T # {}
    PROVE  \E n \in T : \A m \in T : n <= m
<1> DEFINE R == OpToRel(<, Nat)
<1>1. R = {p \in Nat \X Nat : p[1] < p[2]}
    BY Zenon DEF OpToRel
<1>2. IsWellFoundedOn(R, Nat)
    BY NatLessThanWellFounded
<1> HIDE DEF R
<1>3. PICK n \in T : \A m \in T : ~(<<m, n>> \in R)
    BY <1>2, WFMin
<1>4. ASSUME NEW m \in T PROVE n <= m
    <2>1. <<m, n>> \in Nat \X Nat /\ ~(m < n)
        BY <1>1, <1>3
    <2>. QED BY <2>1
<1>. QED BY <1>4

\* The view of a place is that of the first rule which matches, if there is one.
LEMMA FirstRule ==
    ASSUME NEW routes, NEW path, Len(routes) \in Nat
    PROVE  \/ _dispatch(routes, path) = NoView
           \/ \E i \in 1..Len(routes) :
                /\ _dispatch(routes, path).view = routes[i].view
                /\ RuleMatches(routes[i].pattern, path)
                /\ \A j \in 1..i - 1 : ~RuleMatches(routes[j].pattern, path)
<1> DEFINE hits == {i \in 1..Len(routes) : RuleMatches(routes[i].pattern, path)}
           first == CHOOSE i \in hits : \A j \in hits : i <= j
<1>1. CASE hits = {}
    BY <1>1 DEF _dispatch
<1>2. CASE hits # {}
    <2>. hits \subseteq Nat
        OBVIOUS
    <2> HIDE DEF hits
    <2>1. \E i \in hits : \A j \in hits : i <= j
        BY <1>2, LeastNat
    <2>2. first \in hits /\ \A j \in hits : first <= j
        BY <2>1
    <2>3. _dispatch(routes, path).view = routes[first].view
        BY <1>2 DEF _dispatch, hits
    <2> HIDE DEF first
    <2>4. \A j \in 1..first - 1 : j \in 1..Len(routes) /\ ~(first <= j)
        BY <2>2 DEF hits
    <2>. QED BY <2>2, <2>3, <2>4 DEF hits
<1>. QED BY <1>1, <1>2

HraViews == {"root", "allCategories", "allGenres", "category_view", "allEditorGenres", "allEditorMoods",
             "allEditorThemes", "allEditorPlaylists", "edplaylist_view", "allUserPlaylists",
             "allUserAlbums", "allUserTracks", "userplaylist_view", "album_view"}

LEMMA HraPlaces ==
    ASSUME NEW path
    PROVE  _dispatch(HraRoutes, path).view \in HraViews \cup {"none"}
<1>1. Len(HraRoutes) = 14
    BY DEF HraRoutes
<1>2. \A i \in 1..14 : HraRoutes[i].view \in HraViews
    BY DEF HraRoutes, Route, HraViews
<1> DEFINE d == _dispatch(HraRoutes, path)
<1>3. d = NoView \/ \E i \in 1..14 : d.view = HraRoutes[i].view
    <2>1. Len(HraRoutes) \in Nat
        BY <1>1
    <2>2. d = NoView \/ \E i \in 1..Len(HraRoutes) : d.view = HraRoutes[i].view
        BY <2>1, FirstRule, Zenon
    <2>. QED BY <1>1, <2>2
<1> HIDE DEF d
<1>4. CASE d = NoView
    BY <1>4 DEF d, NoView
<1>5. CASE \E i \in 1..14 : d.view = HraRoutes[i].view
    BY <1>2, <1>5 DEF d
<1>. QED BY <1>3, <1>4, <1>5

\* The entries made of identifiers lead to the view they were made for.
LEMMA ViewEntries ==
    ASSUME NEW routes, NEW view, NEW ids, View(routes, view, ids) # <<>>
    PROVE  \E e \in ToSet(View(routes, view, ids)) : e.to.view = view
<1> DEFINE linked == AtPlaces(ids, {i \in 1..Len(ids) : ids[i] \notin HttpIds})
           E(i) == [add_directory(routes, view, <<linked[i]>>) EXCEPT !.title = <<ids[i]>>]
           D == 1..Len(linked)
<1>1. View(routes, view, ids) = [i \in D |-> E(i)]
    BY DEF View
<1>2. \A i : E(i).to.view = view
    BY DEF add_directory
<1> HIDE DEF D, E
<1>3. D # {}
    <2>. SUFFICES ASSUME D = {} PROVE FALSE
        OBVIOUS
    <2>1. [i \in D |-> E(i)] = <<>>
        OBVIOUS
    <2>. QED BY <1>1, <2>1
<1>4. PICK i \in D : TRUE
    BY <1>3
<1>5. View(routes, view, ids)[i] \in ToSet(View(routes, view, ids)) /\ View(routes, view, ids)[i] = E(i)
    BY <1>1, <1>4 DEF ToSet
<1>. QED BY <1>2, <1>5

\* Without a login a browse lists nothing but the root again and the playlists of the editors.
LEMMA BrowsedWithoutLogin ==
    ASSUME NEW view \in HraViews, NEW args, NEW net, HraBrowse(view, args, FALSE, net) # <<>>
    PROVE  \E e \in ToSet(HraBrowse(view, args, FALSE, net)) : e.to.view \in {"root", "edplaylist_view"}
<1> DEFINE entries == HraBrowse(view, args, FALSE, net)
<1>1. CASE view = "root"
    <2> DEFINE e == add_directory(HraRoutes, "root", <<>>)
    <2>1. entries = <<e>> /\ e.to.view = "root"
        BY <1>1 DEF HraBrowse, HraRoot, add_directory
    <2> HIDE DEF e, entries
    <2>2. e \in ToSet(entries)
        BY <2>1 DEF ToSet
    <2>. QED BY <2>1, <2>2 DEF entries
<1>2. CASE view # "root"
    <2>1. HraGets(view, FALSE, net)
        BY <1>2 DEF HraBrowse
    <2>2. view \in {"allEditorGenres", "allEditorMoods", "allEditorThemes", "allEditorPlaylists"}
        BY <1>2, <2>1 DEF HraGets, HraNeedsLogin, HraViews
    <2>3. entries = View(HraRoutes, "edplaylist_view", HraLib.edplaylist)
        BY <2>1, <2>2 DEF HraBrowse, HView
    <2> HIDE DEF entries
    <2>4. entries # <<>>
        BY DEF entries
    <2>5. \E e \in ToSet(entries) : e.to.view = "edplaylist_view"
        BY <2>3, <2>4, ViewEntries
    <2>. QED BY <2>5 DEF entries
<1>. QED BY <1>1, <1>2

\* The session with which a command is served.
Renewed(r) == r.session.on \in BOOLEAN
              /\ (r.session.on => r.session.age = "fresh" /\ r.session.user = Configured)

LEMMA BrowsedServed ==
    ASSUME service = "hra", NEW r, Renewed(r), NEW place, NEW account
    PROVE  Served(Browsed(place, r, account).entries, r.session)
<1> DEFINE to == _dispatch(HraRoutes, place)
           entries == Browsed(place, r, account).entries
<1>1. CASE r.session.on
    BY <1>1 DEF Served, Renewed
<1>2. CASE ~r.session.on
    <2>. SUFFICES ASSUME entries # <<>>
                  PROVE  \E e \in ToSet(entries) : e.to.view \in {"root", "edplaylist_view"}
        BY DEF Served
    <2>1. Routes = HraRoutes
        BY DEF Routes
    <2>2. to.view # "none" /\ entries = HraBrowse(to.view, to.args, r.session.on, r.net)
        BY <2>1 DEF Browsed
    <2>3. r.session.on = FALSE
        BY <1>2 DEF Renewed
    <2>4. to.view \in HraViews
        BY <2>2, HraPlaces
    <2> HIDE DEF to, entries
    <2>. QED BY <2>2, <2>3, <2>4, BrowsedWithoutLogin
<1>. QED BY <1>1, <1>2

LEMMA ReadyRenewed ==
    ASSUME IInv, service = "hra", NEW net \in Nat, NEW account
    PROVE  Renewed(Ready(net, account))
<1> DEFINE r == Ready(net, account)
<1>1. r.session \in Session /\ OneUser(r.session) /\ (r.session.on => r.session.age = "fresh")
    BY ReadyKeeps
<1> HIDE DEF r
<1>2. Renewed(r)
    BY <1>1 DEF Renewed, Session, OneUser
<1>. QED BY <1>2 DEF r

\* The second login of a root keeps what the first one gave.
LEMMA AgainKeeps ==
    ASSUME IInv, NEW net \in Nat, NEW account, NEW place
    PROVE  LET r == Again(place, Ready(net, account), account)
           IN  /\ r.session \in Session /\ OneUser(r.session) /\ File(r.file) /\ r.net \in Nat
               /\ service = "hra" => Renewed(r)
<1> DEFINE ready == Ready(net, account)
           r == Again(place, ready, account)
<1>1. /\ ready.session \in Session /\ OneUser(ready.session) /\ File(ready.file) /\ ready.net \in Nat
      /\ service = "hra" /\ ready.session.on => ready.session.age = "fresh"
    BY ReadyKeeps
<1>2. r = ready \/ r = LoginAs(ready.session, ready.file, Configured, ready.net, account)
    BY DEF Again
<1>3. Configured \in Users /\ Fixed
    BY DEF Users, IInv
<1> HIDE DEF ready, r
<1>4. /\ r.session \in Session /\ OneUser(r.session) /\ File(r.file) /\ r.net \in Nat
      /\ service = "hra" /\ r.session.on => r.session.age = "fresh"
    BY <1>1, <1>2, <1>3, LoginKeeps
<1>5. service = "hra" => Renewed(r)
    BY <1>4 DEF Renewed, Session, OneUser
<1>. QED BY <1>4, <1>5 DEF r, ready

-----------------------------------------------------------------------------
(* The steps *)

LEMMA AnswerKeeps ==
    ASSUME IInv, NEW asked, NEW place, NEW r, NEW result,
           r.session \in Session, OneUser(r.session), File(result.file),
           asked \in {"browse", "trackuri"} => Served(result.entries, r.session),
           Answer(asked, place, r, result),
           Served(cache.entries, cache.as)'
    PROVE  IInv'
<1>1. Fixed'
    BY DEF IInv, Fixed, Answer
<1>2. session' \in Session /\ OneUser(session)' /\ File(file)'
    BY DEF Answer, OneUser, File
<1>3. (answer.asked \in {"browse", "trackuri"} => Served(answer.entries, answer.as))'
    BY DEF Answer, Served
<1>. QED BY <1>1, <1>2, <1>3 DEF IInv

\* A listing which is shown is that of the cache, or the session which serves it was made ready.
LEMMA BrowseStep ==
    ASSUME IInv, NEW place, browse(place)
    PROVE  IInv'
<1>1. CASE /\ cache.place = place /\ proc # "exited" /\ proc' = "up"
           /\ \E net \in NetNow, account \in AccountNow :
                LET st == Started(net, account) IN session' = st.session /\ file' = st.file
           /\ answer' = [asked |-> "browse", place |-> place, kind |-> "entries",
                         entries |-> cache.entries, as |-> cache.as]
           /\ UNCHANGED <<service, appid, creds, cache, good>>
    <2>1. PICK net \in NetNow, account \in AccountNow :
             session' = Started(net, account).session /\ file' = Started(net, account).file
        BY <1>1
    <2>2. session' \in Session /\ OneUser(session') /\ File(file')
        BY <2>1, NetType, StartedKeeps
    <2>3. Served(answer'.entries, answer'.as)
        BY <1>1 DEF IInv
    <2>. QED BY <1>1, <2>2, <2>3 DEF IInv, Fixed, OneUser, File, Served
<1>2. CASE /\ cache.place # place
           /\ Command(LAMBDA ready, account :
                LET r == Again(place, ready, account)
                    b == Browsed(place, r, account)
                IN  /\ Answer("browse", place, r, b)
                    /\ cache' = IF b.raised \/ place \notin Kept THEN cache
                                ELSE [place |-> place, entries |-> b.entries, as |-> r.session])
    <2>1. PICK net \in NetNow, account \in AccountNow :
             LET r == Again(place, Ready(net, account), account)
                 b == Browsed(place, r, account)
             IN  /\ Answer("browse", place, r, b)
                 /\ cache' = IF b.raised \/ place \notin Kept THEN cache
                             ELSE [place |-> place, entries |-> b.entries, as |-> r.session]
        BY <1>2 DEF Command
    <2> DEFINE r == Again(place, Ready(net, account), account)
               b == Browsed(place, r, account)
    <2>2. net \in Nat
        BY NetType
    <2>3. r.session \in Session /\ OneUser(r.session) /\ File(r.file)
        BY <2>2, AgainKeeps
    <2>4. service = "hra" => Renewed(r)
        BY <2>2, AgainKeeps
    <2> HIDE DEF r
    <2>5. File(b.file)
        BY <2>3 DEF File, Auth, Browsed
    <2>6. Served(b.entries, r.session)
        <3>1. CASE service = "hra"
            BY <2>4, <3>1, BrowsedServed
        <3>2. CASE service # "hra"
            BY <3>2 DEF Served
        <3>. QED BY <3>1, <3>2
    <2>7. /\ Answer("browse", place, r, b)
          /\ cache' = IF b.raised \/ place \notin Kept THEN cache
                      ELSE [place |-> place, entries |-> b.entries, as |-> r.session]
        BY <2>1 DEF r
    <2> HIDE DEF b
    <2>8. Served(cache.entries, cache.as)'
        BY <2>6, <2>7 DEF IInv, Served, Answer
    <2>. QED BY <2>3, <2>5, <2>6, <2>7, <2>8, AnswerKeeps
<1>. QED BY <1>1, <1>2 DEF browse

\* Play is served only by a session which was made ready in a process that had its path prefix.
LEMMA PlayStep ==
    ASSUME IInv, Play
    PROVE  IInv'
<1> DEFINE early == service = "hra" /\ ~(proc = "up" /\ session.api)
<1>1. PICK track \in Tracks, net \in NetNow, account \in AccountNow :
         LET r == Ready(net, account)
             u == Uri(r.session, early, r.net)
             raises == r.raised \/ u.raises
         IN  Answer("trackuri", track, IF early THEN [r EXCEPT !.session = LoggedOut] ELSE r,
                    [raised |-> raises, file |-> r.file,
                     entries |-> IF raises \/ ~u.served THEN <<>>
                                 ELSE trackentries(<<trackid_from_urlpath(track)>>)])
    BY DEF Play, Command
<1> DEFINE r == Ready(net, account)
           u == Uri(r.session, early, r.net)
           raises == r.raised \/ u.raises
           as == IF early THEN [r EXCEPT !.session = LoggedOut] ELSE r
           result == [raised |-> raises, file |-> r.file,
                      entries |-> IF raises \/ ~u.served THEN <<>>
                                  ELSE trackentries(<<trackid_from_urlpath(track)>>)]
<1>2. net \in Nat
    BY NetType
<1>3. r.session \in Session /\ OneUser(r.session) /\ File(r.file)
    BY <1>2, ReadyKeeps
<1>4. service = "hra" => Renewed(r)
    BY <1>2, ReadyRenewed
<1>5. Answer("trackuri", track, as, result)
    BY <1>1
<1>6. early => as.session = LoggedOut
    <2>. SUFFICES ASSUME early PROVE as.session = LoggedOut
        OBVIOUS
    <2>1. service = "hra"
        OBVIOUS
    <2>2. "session" \in DOMAIN r
        BY <2>1 DEF Ready, LoginAs
    <2> HIDE DEF r
    <2>. QED BY <2>2
<1>7. ~early => as = r
    OBVIOUS
<1> HIDE DEF r
<1>8. as.session \in Session /\ OneUser(as.session)
    <2> HIDE DEF as, early
    <2>. QED BY <1>3, <1>6, <1>7, Start DEF LoggedOutOK
<1>9. File(result.file)
    BY <1>3
<1>10. Served(result.entries, as.session)
    <2>. SUFFICES ASSUME service = "hra", result.entries # <<>>
                  PROVE  as.session.on /\ as.session.age = "fresh" /\ as.session.user = Configured
        BY DEF Served
    <2>1. ~u.raises /\ u.served
        OBVIOUS
    <2>2. u = HraUri(r.session.on, early, r.net)
        BY DEF Uri
    <2>3. Renewed(r)
        BY <1>4
    <2> HIDE DEF as, early, u, result
    <2>4. u.raises = early /\ u.served = (r.session.on /\ HraAnswers(r.net))
        BY <2>2 DEF HraUri
    <2>5. ~early /\ r.session.on
        BY <2>1, <2>4, Zenon
    <2>. QED BY <1>7, <2>3, <2>5 DEF Renewed
<1>11. Served(cache.entries, cache.as)'
    BY <1>5 DEF IInv, Served, Answer, Play
<1> HIDE DEF as, result
<1>. QED BY <1>5, <1>8, <1>9, <1>10, <1>11, AnswerKeeps

\* The metadata of a track and the searches are asked for in the same way.
LEMMA PlainAnswer ==
    ASSUME IInv, NEW asked \in {"meta", "search"}, NEW place, NEW net \in NetNow,
           NEW account, NEW result, UNCHANGED cache,
           File(Ready(net, account).file) => File(result.file),
           Answer(asked, place, Ready(net, account), result)
    PROVE  IInv'
<1> DEFINE r == Ready(net, account)
<1>1. r.session \in Session /\ OneUser(r.session) /\ File(r.file)
    BY NetType, ReadyKeeps
<1> HIDE DEF r
<1>2. Answer(asked, place, r, result) /\ File(result.file)
    BY <1>1 DEF r
<1>3. Served(cache.entries, cache.as)'
    BY <1>2 DEF IInv, Served, Answer
<1>. QED BY <1>1, <1>2, <1>3, AnswerKeeps

LEMMA MetaStep ==
    ASSUME IInv, Meta
    PROVE  IInv'
<1> DEFINE id(track) == trackid_from_urlpath(track)
           raises(r) ==
              \/ r.raised \/ service = "spotify" \/ (service = "tidal" /\ r.net = 0)
              \/ (service = "qobuz" /\ QobuzRaises("track", r.session.user, r.net))
              \/ (service = "hra" /\ HraRaises("track", r.session.on, r.net))
              \/ (service = "deezer" /\ DeezerRaises("track", r.session.on, r.session.user, r.net))
           result(r, track) == [raised |-> raises(r), file |-> r.file,
                                entries |-> IF raises(r) THEN <<>> ELSE trackentries(<<id(track)>>)]
<1>1. PICK track \in Tracks, net \in NetNow, account \in AccountNow :
         Answer("meta", track, Ready(net, account), result(Ready(net, account), track))
    BY DEF Meta, Command
<1>2. result(Ready(net, account), track).file = Ready(net, account).file
    OBVIOUS
<1> HIDE DEF result
<1>. QED BY <1>1, <1>2, PlainAnswer DEF Meta

LEMMA SearchStep ==
    ASSUME IInv, Search
    PROVE  IInv'
<1>1. PICK place \in Places, kind \in SearchKinds, net \in NetNow, account \in AccountNow :
         Answer("search", place, Ready(net, account), Searched(place, kind, Ready(net, account), account))
    BY DEF Search, Command
<1>2. File(Ready(net, account).file) => File(Searched(place, kind, Ready(net, account), account).file)
    BY DEF Searched, Auth, File
<1>. QED BY <1>1, <1>2, PlainAnswer DEF Search

LEMMA QuietStep ==
    ASSUME IInv, Killed \/ ProcessExits \/ AfterExit \/ Expire \/ Older \/ TokenExpires \/ Authorize \/ Settle
    PROVE  IInv'
<1>1. CASE Killed
    BY <1>1, Start DEF Killed, IInv, Fixed, OneUser, File, Served, LoggedOutOK, NoAnswer
<1>2. CASE ProcessExits
    BY <1>2, Start DEF ProcessExits, IInv, Fixed, OneUser, File, Served, LoggedOutOK, NoAnswer
<1>3. CASE AfterExit
    BY <1>3 DEF AfterExit, IInv, Fixed, OneUser, File, Served, NoAnswer
<1>4. CASE Expire
    BY <1>4 DEF Expire, IInv, Fixed, OneUser, File, Served, NoCache
<1>5. CASE Older
    <2>1. /\ session' \in Session /\ session'.on = session.on
          /\ session'.user = session.user /\ session'.token = session.token
        BY <1>5 DEF Older, IInv, Session
    <2>. QED BY <1>5, <2>1 DEF Older, IInv, Fixed, OneUser, File, Served
<1>6. CASE TokenExpires
    BY <1>6 DEF TokenExpires, IInv, Fixed, OneUser, File, Served
<1>7. CASE Authorize
    BY <1>7 DEF Authorize, IInv, Fixed, OneUser, File, Served
<1>8. CASE Settle
    BY <1>8 DEF Settle, IInv, Fixed, OneUser, File, Served
<1>. QED BY <1>1, <1>2, <1>3, <1>4, <1>5, <1>6, <1>7, <1>8

LEMMA InitIInv == Init => IInv
<1>. SUFFICES ASSUME Init PROVE IInv
    OBVIOUS
<1>1. Fixed
    BY ServicesAssumption DEF Init, Fixed, Users
<1>2. session \in Session /\ OneUser(session)
    BY Start DEF Init, LoggedOutOK
<1>3. File(file)
    BY DEF Init, File, Users
<1>4. Served(cache.entries, cache.as) /\ answer.asked \notin {"browse", "trackuri"}
    BY DEF Init, Served, NoCache, NoAnswer
<1>. QED BY <1>1, <1>2, <1>3, <1>4 DEF IInv

LEMMA StepIInv == IInv /\ [Next]_vars => IInv'
<1>. SUFFICES ASSUME IInv, [Next]_vars PROVE IInv'
    OBVIOUS
<1>1. CASE BrowseRoot
    BY <1>1, BrowseStep DEF BrowseRoot
<1>2. CASE Browse
    BY <1>2, BrowseStep DEF Browse
<1>3. CASE Meta \/ Search
    BY <1>3, MetaStep, SearchStep
<1>4. CASE Play
    BY <1>4, PlayStep
<1>5. CASE Killed \/ ProcessExits \/ AfterExit \/ Expire \/ Older \/ TokenExpires \/ Authorize \/ Settle
    BY <1>5, QuietStep
<1>6. CASE UNCHANGED vars
    BY <1>6 DEF vars, IInv, Fixed, OneUser, File, Served
<1>. QED BY <1>1, <1>2, <1>3, <1>4, <1>5, <1>6 DEF Next

\* A session is that of one user, and a listing was served by a session which had the right to
\* it, in every behaviour of a plugin: the logins of the five sessions (maybelogin()), the cache
\* of plgwithslave.cxx and the kills of cmdtalk.cpp keep it so.
THEOREM SessionInvariant == Spec => []IInv
<1>. QED BY InitIInv, StepIInv, PTL DEF Spec

\* What a session reads of "me" and the token it sends are of one user, whatever was refused,
\* not answered or interrupted on the way (Session.login() of Qobuz, Tidal, HRA and Deezer).
THEOREM OneUserPerSession == Spec => []SessionHasOneUser
<1>1. IInv => SessionHasOneUser
    BY DEF IInv, OneUser, SessionHasOneUser
<1>. QED BY <1>1, SessionInvariant, PTL

\* HRAAPI.isloggedin() renews in time: a list which needs a login comes from a fresh session of
\* the configured user, even when the cache of the Media Server shows it later.
THEOREM FreshListings == Spec => []ListsWithFreshSession
<1>1. IInv => ListsWithFreshSession
    BY DEF IInv, Served, ListsWithFreshSession
<1>. QED BY <1>1, SessionInvariant, PTL

-----------------------------------------------------------------------------
(* The elements of a list at some of its places *)

Upto(places, i) == Cardinality({j \in places : j <= i})

\* Every number up to that of the places is that of one place.
LEMMA SomePlace ==
    ASSUME NEW n \in Nat, NEW places, \A j \in places : j \in 1..n
    PROVE  /\ Cardinality(places) \in Nat
           /\ \A k \in 1..Cardinality(places) : \E i \in places : Upto(places, i) = k
<1>1. IsFiniteSet(places)
    <2>1. IsFiniteSet(1..n) /\ places \in SUBSET (1..n)
        BY FS_Interval
    <2>. QED BY <2>1, FS_Subset
<1>2. Cardinality(places) \in Nat
    BY <1>1, FS_CardinalityType
<1>3. ASSUME NEW i \in Nat PROVE Upto(places, i) \in Nat
    <2>1. {j \in places : j <= i} \in SUBSET places
        OBVIOUS
    <2>. QED BY <1>1, <2>1, FS_Subset, FS_CardinalityType DEF Upto
<1>4. Upto(places, 0) = 0 /\ Upto(places, n) = Cardinality(places)
    <2>1. {j \in places : j <= 0} = {}
        OBVIOUS
    <2>2. {j \in places : j <= n} = places
        OBVIOUS
    <2>. QED BY <2>1, <2>2, FS_EmptySet DEF Upto
<1>5. ASSUME NEW i \in Nat \ {0}, i \notin places PROVE Upto(places, i) = Upto(places, i - 1)
    <2>1. \A j \in places : j <= i <=> j <= i - 1
        BY <1>5
    <2>2. {j \in places : j <= i} = {j \in places : j <= i - 1}
        BY <2>1, Zenon
    <2>. QED BY <2>2 DEF Upto
<1>6. ASSUME NEW i \in places PROVE Upto(places, i) = Upto(places, i - 1) + 1
    <2> DEFINE before == {j \in places : j <= i - 1}
    <2>5. \A j \in places : j <= i <=> j <= i - 1 \/ j = i
        OBVIOUS
    <2>6. i \notin before
        OBVIOUS
    <2>1. {j \in places : j <= i} = before \cup {i} /\ i \notin before
        BY <2>5, <2>6, Zenon
    <2>2. before \in SUBSET places
        OBVIOUS
    <2> HIDE DEF before
    <2>3. IsFiniteSet(before)
        BY <1>1, <2>2, FS_Subset
    <2>4. Cardinality(before \cup {i}) = Cardinality(before) + 1
        BY <2>1, <2>3, FS_AddElement
    <2>. QED BY <2>1, <2>4 DEF Upto, before
<1>7. ASSUME NEW k \in 1..Cardinality(places) PROVE \E i \in places : Upto(places, i) = k
    <2> DEFINE T == {i \in 0..n : Upto(places, i) >= k}
    <2>1. n \in T /\ T \subseteq Nat
        BY <1>2, <1>4
    <2>2. PICK i \in T : \A m \in T : i <= m
        BY <2>1, LeastNat
    <2>3. i # 0 /\ i - 1 \in Nat /\ i - 1 \notin T
        BY <1>4, <2>2
    <2>4. Upto(places, i) \in Nat /\ Upto(places, i - 1) \in Nat
          /\ Upto(places, i) >= k /\ Upto(places, i - 1) < k
        BY <1>3, <2>2, <2>3
    <2>5. i \in places
        BY <1>5, <2>2, <2>3, <2>4
    <2>6. Upto(places, i) = Upto(places, i - 1) + 1
        BY <1>6, <2>5
    <2>. QED BY <2>4, <2>5, <2>6
<1>. QED BY <1>2, <1>7

LEMMA AtPlacesIs ==
    ASSUME NEW S, NEW list \in Seq(S), NEW places, \A j \in places : j \in 1..Len(list)
    PROVE  AtPlaces(list, places) \in Seq({x \in S : \E i \in places : x = list[i]})
<1> DEFINE P == {x \in S : \E i \in places : x = list[i]}
           place(k) == CHOOSE i \in places : Upto(places, i) = k
<1>1. Len(list) \in Nat /\ \A i \in 1..Len(list) : list[i] \in S
    BY LenProperties, ElementOfSeq
<1>2. /\ Cardinality(places) \in Nat
      /\ \A k \in 1..Cardinality(places) : \E i \in places : Upto(places, i) = k
    BY <1>1, SomePlace
<1>3. \A k \in 1..Cardinality(places) : place(k) \in places
    BY <1>2
<1>4. AtPlaces(list, places) = [k \in 1..Cardinality(places) |-> list[place(k)]]
    BY DEF AtPlaces, Upto
<1> HIDE DEF place
<1>5. \A k \in 1..Cardinality(places) : list[place(k)] \in P
    BY <1>1, <1>3
<1> HIDE DEF P
<1>6. AtPlaces(list, places) \in Seq(P)
    BY <1>2, <1>4, <1>5, IsASeq
<1>. QED BY <1>6 DEF P

\* All the elements of a list.
LEMMA AllPlaces ==
    ASSUME NEW S, NEW list \in Seq(S)
    PROVE  AtPlaces(list, 1..Len(list)) = list
<1> DEFINE n == Len(list)
<1>1. n \in Nat /\ list = [i \in 1..n |-> list[i]]
    BY LenProperties
<1> HIDE DEF n
<1>2. \A i \in 0..n : Cardinality(1..i) = i
    <2>1. ASSUME NEW i \in 0..n PROVE Cardinality(1..i) = IF 1 > i THEN 0 ELSE i - 1 + 1
        <3>1. i \in Int /\ 1 \in Int
            BY <1>1
        <3>. QED BY <3>1, FS_Interval, Zenon
    <2>. QED BY <1>1, <2>1
<1>3. ASSUME NEW i \in 1..n PROVE Upto(1..n, i) = i
    <2>1. {j \in 1..n : j <= i} = 1..i
        BY <1>1
    <2>2. Cardinality(1..i) = i
        BY <1>1, <1>2
    <2>. QED BY <2>1, <2>2, Zenon DEF Upto
<1>4. ASSUME NEW k \in 1..n PROVE (CHOOSE i \in 1..n : Upto(1..n, i) = k) = k
    BY <1>3
<1>5. AtPlaces(list, 1..n) = [k \in 1..n |-> list[CHOOSE i \in 1..n : Upto(1..n, i) = k]]
    <2>1. Cardinality(1..n) = n
        BY <1>1, <1>2
    <2>. QED BY <2>1, Zenon DEF AtPlaces, Upto
<1>6. AtPlaces(list, 1..n) = [k \in 1..n |-> list[k]]
    BY <1>4, <1>5
<1>. QED BY <1>1, <1>6 DEF n

-----------------------------------------------------------------------------
(* The patterns of the routes *)

LEMMA FlattenedOne ==
    ASSUME NEW x PROVE FlattenSeq(<<x>>) = x
<1> DEFINE step(g) == [i \in 1..1 |-> IF i = 1 THEN <<x>>[i] ELSE g[i - 1] \o <<x>>[i]]
           flat == CHOOSE g : g = step(g)
<1>1. FlattenSeq(<<x>>) = flat[1]
    BY DEF FlattenSeq
<1> DEFINE g0 == [i \in 1..1 |-> x]
<1>2. g0 = step(g0)
    OBVIOUS
<1>3. flat = step(flat)
    <2> HIDE DEF step
    <2>. QED BY <1>2
<1>4. step(flat)[1] = x
    OBVIOUS
<1>. QED BY <1>1, <1>3, <1>4

LEMMA FlattenedTwo ==
    ASSUME NEW x, NEW y PROVE FlattenSeq(<<x, y>>) = x \o y
<1> DEFINE s == <<x, y>>
           step(g) == [i \in 1..2 |-> IF i = 1 THEN s[i] ELSE g[i - 1] \o s[i]]
           flat == CHOOSE g : g = step(g)
           g0 == [i \in 1..2 |-> IF i = 1 THEN x ELSE x \o y]
<1>1. FlattenSeq(s) = flat[2]
    BY DEF FlattenSeq
<1>2. \A g : step(g)[1] = x /\ step(g)[2] = g[1] \o y
    OBVIOUS
<1>3. g0 = step(g0)
    OBVIOUS
<1>4. flat = step(flat)
    <2> HIDE DEF step
    <2>. QED BY <1>3
<1> HIDE DEF flat, step
<1>5. flat[1] = x /\ flat[2] = flat[1] \o y
    BY <1>2, <1>4
<1>. QED BY <1>1, <1>5

LEMMA FlattenedThree ==
    ASSUME NEW x, NEW y, NEW z PROVE FlattenSeq(<<x, y, z>>) = FlattenSeq(<<x, y>>) \o z
<1> DEFINE s == <<x, y, z>>
           step(g) == [i \in 1..3 |-> IF i = 1 THEN s[i] ELSE g[i - 1] \o s[i]]
           flat == CHOOSE g : g = step(g)
           g0 == [i \in 1..3 |-> IF i = 1 THEN x ELSE IF i = 2 THEN x \o y ELSE (x \o y) \o z]
<1>1. FlattenSeq(s) = flat[3]
    BY DEF FlattenSeq
<1>2. \A g : step(g)[1] = x /\ step(g)[2] = g[1] \o y /\ step(g)[3] = g[2] \o z
    OBVIOUS
<1>3. g0 = step(g0)
    OBVIOUS
<1>4. flat = step(flat)
    <2> HIDE DEF step
    <2>. QED BY <1>3
<1> HIDE DEF flat, step
<1>5. flat[1] = x /\ flat[2] = flat[1] \o y /\ flat[3] = flat[2] \o z
    BY <1>2, <1>4
<1>6. FlattenSeq(s) = (x \o y) \o z
    BY <1>1, <1>5
<1>. QED BY <1>6, FlattenedTwo

-----------------------------------------------------------------------------
\* The strings which the plugins write: no prover knows that they are elements of STRING.
Words ==
  { "None", "album", "album_view", "albums", "allCategories", "allEditorGenres", "allEditorMoods",
    "allEditorPlaylists", "allEditorThemes", "allGenres", "allUserAlbums", "allUserPlaylists",
    "allUserTracks", "allcategories", "alleditorgenres", "alleditormoods", "alleditorplaylists",
    "alleditorthemes", "allgenres", "alluseralbums", "alluserplaylists", "allusertracks", "artist",
    "artist_radio", "artist_view", "artists", "best-sellers", "category", "category_view",
    "editor-picks", "editorplaylist", "edplaylist_view", "favourite_albums", "favourite_artists",
    "favourite_playlists", "favourite_tracks", "featured", "featured_playlists", "genre",
    "genre_albums", "genre_playlists", "genre_tracks", "genre_view", "genre_view_playlists",
    "genre_view_type", "genres", "genres_and_moods", "local", "moods", "moods_playlists",
    "most-streamed", "my_family", "my_favourite_albums", "my_favourite_artists",
    "my_favourite_playlists", "my_favourite_tracks", "my_music", "my_playlists", "new",
    "new-releases", "new_releases", "playlist", "playlist_view", "playlists", "press-awards",
    "radio", "recently_played", "recommended", "root", "root_genres", "similar", "similar_artists",
    "top", "top_tracks", "track", "track_radio", "tracks", "user", "user_playlists", "user_view",
    "userplaylist", "userplaylist_view", "whats_new"}
Segments == STRING \cup Words

\* The identifiers which are one segment.
Id == {<<s>> : s \in Segments \ {""}}
Paths == Seq(Segments)

\* The patterns of the plugins: words, and parameters at the second place or after it.
IsWord(a) == a \in Segments /\ a # Arg /\ a # ""
Shape(p) ==
    \/ p = <<>>
    \/ \E a \in Segments : IsWord(a) /\ p \in {<<a>>, <<a, Arg>>, <<a, Arg, Arg>>}
    \/ \E a, b \in Segments : IsWord(a) /\ IsWord(b) /\ p = <<a, Arg, b>>

\* Arguments, one for each parameter of a pattern: identifiers of one segment.
Fits(p, args) ==
    \/ p = <<>> /\ args = <<>>
    \/ \E a \in Segments : IsWord(a) /\ p = <<a>> /\ args = <<>>
    \/ \E a \in Segments : \E x \in Id : IsWord(a) /\ p = <<a, Arg>> /\ args = <<x>>
    \/ \E a \in Segments : \E x, y \in Id : IsWord(a) /\ p = <<a, Arg, Arg>> /\ args = <<x, y>>
    \/ \E a, b \in Segments : \E x \in Id : IsWord(a) /\ IsWord(b) /\ p = <<a, Arg, b>> /\ args = <<x>>

LEMMA IdIs == \A x \in Id : x = <<x[1]>> /\ x[1] \in Segments /\ x[1] # ""
<1>. SUFFICES ASSUME NEW x \in Id PROVE x = <<x[1]>> /\ x[1] \in Segments /\ x[1] # ""
    OBVIOUS
<1>1. PICK s \in Segments \ {""} : x = <<s>>
    BY DEF Id
<1>2. x[1] = s
    BY <1>1
<1>. QED BY <1>1, <1>2

LEMMA JoinTwo ==
    ASSUME NEW u, NEW v PROVE <<u>> \o <<v>> = <<u, v>>
<1> DEFINE S == {u, v}
<1>1. <<u>> \in Seq(S) /\ <<v>> \in Seq(S) /\ <<u, v>> \in Seq(S)
    OBVIOUS
<1>2. /\ <<u>> \o <<v>> \in Seq(S) /\ Len(<<u>> \o <<v>>) = Len(<<u>>) + Len(<<v>>)
      /\ \A i \in 1..Len(<<u>>) + Len(<<v>>) :
            (<<u>> \o <<v>>)[i] = IF i <= Len(<<u>>) THEN <<u>>[i] ELSE <<v>>[i - Len(<<u>>)]
    BY <1>1, ConcatProperties
<1> DEFINE w == <<u>> \o <<v>>
<1>3. w \in Seq(S) /\ Len(w) = 2 /\ w[1] = u /\ w[2] = v
    BY <1>2
<1> HIDE DEF w, S
<1>4. w = <<u, v>>
    BY <1>1, <1>3, SeqEqual
<1>. QED BY <1>4 DEF w

LEMMA JoinThree ==
    ASSUME NEW u, NEW v, NEW t PROVE <<u, v>> \o <<t>> = <<u, v, t>>
<1> DEFINE S == {u, v, t}
           w == <<u, v>> \o <<t>>
<1>1. <<u, v>> \in Seq(S) /\ <<t>> \in Seq(S) /\ <<u, v, t>> \in Seq(S)
    OBVIOUS
<1>2. /\ w \in Seq(S) /\ Len(w) = Len(<<u, v>>) + Len(<<t>>)
      /\ \A i \in 1..Len(<<u, v>>) + Len(<<t>>) :
            w[i] = IF i <= Len(<<u, v>>) THEN <<u, v>>[i] ELSE <<t>>[i - Len(<<u, v>>)]
    BY <1>1, ConcatProperties
<1> HIDE DEF w
<1>3. Len(w) = 3 /\ w[1] = u /\ w[2] = v /\ w[3] = t
    BY <1>2
<1> HIDE DEF S
<1>4. w = <<u, v, t>>
    BY <1>1, <1>2, <1>3, SeqEqual
<1>. QED BY <1>4 DEF w

LEMMA CountNone ==
    ASSUME NEW p, NEW n \in Nat, \A j \in 1..n : p[j] # Arg
    PROVE  ArgsUpTo(p, n) = 0
<1>1. {j \in 1..n : p[j] = Arg} = {}
    OBVIOUS
<1>. QED BY <1>1, FS_EmptySet DEF ArgsUpTo

LEMMA CountOne ==
    ASSUME NEW p, NEW n \in Nat, NEW k \in 1..n, \A j \in 1..n : p[j] = Arg <=> j = k
    PROVE  ArgsUpTo(p, n) = 1
<1>1. {j \in 1..n : p[j] = Arg} = {k}
    OBVIOUS
<1>. QED BY <1>1, FS_Singleton DEF ArgsUpTo

LEMMA CountTwo ==
    ASSUME NEW p, p[1] # Arg, p[2] = Arg, p[3] = Arg
    PROVE  ArgsUpTo(p, 3) = 2
<1>1. {j \in 1..3 : p[j] = Arg} = {2} \cup {3}
    OBVIOUS
<1>4. 3 \notin {2}
    OBVIOUS
<1>2. IsFiniteSet({2}) /\ Cardinality({2}) = 1 /\ 3 \notin {2}
    BY <1>4, FS_Singleton, Zenon
<1>3. Cardinality({2} \cup {3}) = 2
    BY <1>2, FS_AddElement
<1>. QED BY <1>1, <1>3 DEF ArgsUpTo

\* What make_path() makes of each of the patterns, and what match() finds in it.
LEMMA NoSegment == make_path(<<>>, <<>>) = <<>> /\ MatchedArgs(<<>>, <<>>) = <<>>
<1>1. ArgsUpTo(<<>>, 0) = 0
    BY CountNone
<1>2. [i \in 1..0 |-> IF <<>>[i] = Arg THEN <<>>[ArgsUpTo(<<>>, i)] ELSE <<<<>>[i]>>] = <<>>
    OBVIOUS
<1>3. FlattenSeq(<<>>) = <<>>
    BY DEF FlattenSeq
<1>4. make_path(<<>>, <<>>) = <<>>
    BY <1>2, <1>3 DEF make_path
<1>5. MatchedArgs(<<>>, <<>>) = <<>>
    BY <1>1 DEF MatchedArgs
<1>. QED BY <1>4, <1>5

LEMMA OneWord ==
    ASSUME NEW a \in Segments, IsWord(a)
    PROVE  /\ make_path(<<a>>, <<>>) = <<a>>
           /\ \A path : MatchedArgs(<<a>>, path) = <<>>
<1> DEFINE p == <<a>>
<1>1. p[1] # Arg /\ Len(p) = 1
    BY DEF IsWord
<1> HIDE DEF p
<1>2. ArgsUpTo(p, 1) = 0
    BY <1>1, CountNone
<1>3. [i \in 1..Len(p) |-> IF p[i] = Arg THEN <<>>[ArgsUpTo(p, i)] ELSE <<p[i]>>] = << <<p[1]>> >>
    BY <1>1
<1>4. make_path(p, <<>>) = FlattenSeq(<< <<p[1]>> >>)
    BY <1>3, Zenon DEF make_path
<1>5. \A path : MatchedArgs(p, path) = <<>>
    <2>1. 1..ArgsUpTo(p, Len(p)) = {}
        BY <1>1, <1>2
    <2>2. \A f : [n \in {} |-> f[n]] = <<>>
        OBVIOUS
    <2>. QED BY <2>1 DEF MatchedArgs
<1>6. make_path(p, <<>>) = <<p[1]>>
    BY <1>4, FlattenedOne
<1>. QED BY <1>5, <1>6 DEF p

LEMMA WordAndArg ==
    ASSUME NEW a \in Segments, IsWord(a), NEW x \in Id
    PROVE  /\ make_path(<<a, Arg>>, <<x>>) = <<a, x[1]>>
           /\ \A path : MatchedArgs(<<a, Arg>>, path) = << <<path[2]>> >>
<1> DEFINE p == <<a, Arg>>
<1>1. p[1] # Arg /\ p[2] = Arg /\ Len(p) = 2
    BY DEF IsWord
<1> HIDE DEF p
<1>2. ArgsUpTo(p, 1) = 0
    BY <1>1, CountNone
<1>3. ArgsUpTo(p, 2) = 1
    BY <1>1, CountOne
<1>4. [i \in 1..Len(p) |-> IF p[i] = Arg THEN <<x>>[ArgsUpTo(p, i)] ELSE <<p[i]>>] = << <<p[1]>>, x>>
    BY <1>1, <1>3
<1>5. make_path(p, <<x>>) = FlattenSeq(<< <<p[1]>>, x>>)
    BY <1>4, Zenon DEF make_path
<1>6. x = <<x[1]>>
    BY IdIs
<1>7. <<p[1]>> \o <<x[1]>> = <<p[1], x[1]>>
    BY JoinTwo
<1>8. make_path(p, <<x>>) = <<p[1], x[1]>>
    BY <1>5, <1>6, <1>7, FlattenedTwo
<1>9. (CHOOSE i \in 1..Len(p) : p[i] = Arg /\ ArgsUpTo(p, i) = 1) = 2
    BY <1>1, <1>2, <1>3
<1>10. ASSUME NEW path PROVE MatchedArgs(p, path) = << <<path[2]>> >>
    BY <1>1, <1>3, <1>9 DEF MatchedArgs
<1>. QED BY <1>8, <1>10 DEF p

LEMMA WordArgWord ==
    ASSUME NEW a \in Segments, IsWord(a), NEW b \in Segments, IsWord(b), NEW x \in Id
    PROVE  /\ make_path(<<a, Arg, b>>, <<x>>) = <<a, x[1], b>>
           /\ \A path : MatchedArgs(<<a, Arg, b>>, path) = << <<path[2]>> >>
<1> DEFINE p == <<a, Arg, b>>
<1>1. p[1] # Arg /\ p[2] = Arg /\ p[3] # Arg /\ Len(p) = 3
    BY DEF IsWord
<1> HIDE DEF p
<1>2. ArgsUpTo(p, 1) = 0
    BY <1>1, CountNone
<1>3. ArgsUpTo(p, 2) = 1 /\ ArgsUpTo(p, 3) = 1
    BY <1>1, CountOne
<1>4. [i \in 1..Len(p) |-> IF p[i] = Arg THEN <<x>>[ArgsUpTo(p, i)] ELSE <<p[i]>>] = << <<p[1]>>, x, <<p[3]>> >>
    BY <1>1, <1>3
<1>5. make_path(p, <<x>>) = FlattenSeq(<< <<p[1]>>, x, <<p[3]>> >>)
    BY <1>4, Zenon DEF make_path
<1>6. x = <<x[1]>>
    BY IdIs
<1>7. (<<p[1]>> \o <<x[1]>>) \o <<p[3]>> = <<p[1], x[1], p[3]>>
    <2>1. <<p[1]>> \o <<x[1]>> = <<p[1], x[1]>>
        BY JoinTwo, Zenon
    <2>2. <<p[1], x[1]>> \o <<p[3]>> = <<p[1], x[1], p[3]>>
        BY JoinThree, Zenon
    <2>. QED BY <2>1, <2>2, Zenon
<1>11. FlattenSeq(<< <<p[1]>>, x, <<p[3]>>>>) = FlattenSeq(<< <<p[1]>>, x>>) \o <<p[3]>>
    BY FlattenedThree
<1>12. FlattenSeq(<< <<p[1]>>, x>>) = <<p[1]>> \o x
    BY FlattenedTwo
<1>8. make_path(p, <<x>>) = <<p[1], x[1], p[3]>>
    BY <1>5, <1>6, <1>7, <1>11, <1>12, Zenon
<1>9. (CHOOSE i \in 1..Len(p) : p[i] = Arg /\ ArgsUpTo(p, i) = 1) = 2
    BY <1>1, <1>2, <1>3
<1>10. ASSUME NEW path PROVE MatchedArgs(p, path) = << <<path[2]>> >>
    BY <1>1, <1>3, <1>9 DEF MatchedArgs
<1>. QED BY <1>8, <1>10 DEF p

LEMMA WordAndArgs ==
    ASSUME NEW a \in Segments, IsWord(a), NEW x \in Id, NEW y \in Id
    PROVE  /\ make_path(<<a, Arg, Arg>>, <<x, y>>) = <<a, x[1], y[1]>>
           /\ \A path : MatchedArgs(<<a, Arg, Arg>>, path) = << <<path[2]>>, <<path[3]>> >>
<1> DEFINE p == <<a, Arg, Arg>>
<1>1. p[1] # Arg /\ p[2] = Arg /\ p[3] = Arg /\ Len(p) = 3
    BY DEF IsWord
<1> HIDE DEF p
<1>2. ArgsUpTo(p, 1) = 0
    BY <1>1, CountNone
<1>3. ArgsUpTo(p, 2) = 1 /\ ArgsUpTo(p, 3) = 2
    BY <1>1, CountOne, CountTwo
<1>4. [i \in 1..Len(p) |-> IF p[i] = Arg THEN <<x, y>>[ArgsUpTo(p, i)] ELSE <<p[i]>>] = << <<p[1]>>, x, y>>
    BY <1>1, <1>3
<1>5. make_path(p, <<x, y>>) = FlattenSeq(<< <<p[1]>>, x, y>>)
    BY <1>4, Zenon DEF make_path
<1>6. x = <<x[1]>> /\ y = <<y[1]>>
    BY IdIs
<1>7. (<<p[1]>> \o <<x[1]>>) \o <<y[1]>> = <<p[1], x[1], y[1]>>
    <2>1. <<p[1]>> \o <<x[1]>> = <<p[1], x[1]>>
        BY JoinTwo, Zenon
    <2>2. <<p[1], x[1]>> \o <<y[1]>> = <<p[1], x[1], y[1]>>
        BY JoinThree, Zenon
    <2>. QED BY <2>1, <2>2, Zenon
<1>11. FlattenSeq(<< <<p[1]>>, x, y>>) = FlattenSeq(<< <<p[1]>>, x>>) \o y
    BY FlattenedThree
<1>12. FlattenSeq(<< <<p[1]>>, x>>) = <<p[1]>> \o x
    BY FlattenedTwo
<1>8. make_path(p, <<x, y>>) = <<p[1], x[1], y[1]>>
    BY <1>5, <1>6, <1>7, <1>11, <1>12, Zenon
<1>9. /\ (CHOOSE i \in 1..Len(p) : p[i] = Arg /\ ArgsUpTo(p, i) = 1) = 2
      /\ (CHOOSE i \in 1..Len(p) : p[i] = Arg /\ ArgsUpTo(p, i) = 2) = 3
    BY <1>1, <1>2, <1>3
<1>10. ASSUME NEW path PROVE MatchedArgs(p, path) = << <<path[2]>>, <<path[3]>> >>
    BY <1>1, <1>3, <1>9 DEF MatchedArgs
<1>. QED BY <1>8, <1>10 DEF p

LEMMA Short ==
    ASSUME NEW S
    PROVE  /\ <<>> \in Seq(S)
           /\ \A u \in S : <<u>> \in Seq(S)
           /\ \A u, v \in S : <<u, v>> \in Seq(S)
           /\ \A u, v, t \in S : <<u, v, t>> \in Seq(S)
OBVIOUS

Segment(p, path, i) == p[i] \in {Arg, path[i]} /\ path[i] # ""

LEMMA Matching ==
    ASSUME NEW p, NEW path, NEW n \in 0..3, Len(p) = n, Len(path) = n,
           \A i \in 1..n : Segment(p, path, i)
    PROVE  RuleMatches(p, path)
BY Zenon DEF RuleMatches, Segment

\* What a view function is called with brings make_path() back to the same pattern.
LEMMA FittedPath ==
    ASSUME NEW p, NEW args, Fits(p, args)
    PROVE  /\ make_path(p, args) \in Paths /\ args \in Seq(Paths)
           /\ RuleMatches(p, make_path(p, args))
           /\ MatchedArgs(p, make_path(p, args)) = args
<1>0. Id \subseteq Paths
    <2>1. \A x \in Id : <<x[1]>> \in Seq(Segments)
        BY IdIs, Short
    <2>. QED BY <2>1, IdIs, Zenon DEF Paths
<1>1. CASE p = <<>> /\ args = <<>>
    <2>1. make_path(p, args) = <<>> /\ MatchedArgs(p, make_path(p, args)) = args
        BY <1>1, NoSegment
    <2>2. RuleMatches(<<>>, <<>>)
        <3>1. Len(<<>>) = 0 /\ \A i \in 1..0 : Segment(<<>>, <<>>, i)
            OBVIOUS
        <3>. QED BY <3>1, Matching
    <2>. QED BY <1>1, <2>1, <2>2, Short DEF Paths
<1>2. ASSUME NEW a \in Segments, IsWord(a), p = <<a>>, args = <<>>
      PROVE  make_path(p, args) \in Paths /\ args \in Seq(Paths) /\ RuleMatches(p, make_path(p, args))
             /\ MatchedArgs(p, make_path(p, args)) = args
    <2>1. make_path(p, args) = <<a>> /\ MatchedArgs(p, make_path(p, args)) = args
        BY <1>2, OneWord
    <2>2. RuleMatches(p, <<a>>)
        <3>1. Len(p) = 1 /\ Len(<<a>>) = 1
            BY <1>2
        <3>2. Segment(p, <<a>>, 1)
            BY <1>2 DEF Segment, IsWord
        <3>. QED BY <3>1, <3>2, Matching
    <2>3. <<a>> \in Paths /\ args \in Seq(Paths)
        BY <1>2, Short DEF Paths
    <2>. QED BY <2>1, <2>2, <2>3, Zenon
<1>3. ASSUME NEW a \in Segments, NEW x \in Id, IsWord(a), p = <<a, Arg>>, args = <<x>>
      PROVE  make_path(p, args) \in Paths /\ args \in Seq(Paths) /\ RuleMatches(p, make_path(p, args))
             /\ MatchedArgs(p, make_path(p, args)) = args
    <2>1. make_path(p, args) = <<a, x[1]>> /\ MatchedArgs(p, <<a, x[1]>>) = << << <<a, x[1]>>[2] >> >>
        BY <1>3, WordAndArg
    <2>2. x = <<x[1]>> /\ x[1] \in Segments /\ x[1] # ""
        BY IdIs
    <2>3. RuleMatches(p, <<a, x[1]>>)
        <3> DEFINE path == <<a, x[1]>>
        <3>1. Len(p) = 2 /\ p[1] = a /\ p[2] = Arg
            BY <1>3
        <3>2. Len(path) = 2 /\ path[1] = a /\ path[2] # ""
            BY <2>2
        <3> HIDE DEF path
        <3>4. Segment(p, path, 1) /\ Segment(p, path, 2)
            BY <1>3, <3>1, <3>2 DEF Segment, IsWord
        <3>5. Len(p) = 2 /\ Len(path) = 2
            BY <3>1, <3>2
        <3>6. \A i \in 1..2 : Segment(p, path, i)
            BY <3>4
        <3>3. RuleMatches(p, path)
            BY <3>5, <3>6, Matching
        <3>. QED BY <3>3 DEF path
    <2>4. MatchedArgs(p, <<a, x[1]>>) = args
        <3>1. <<a, x[1]>>[2] = x[1]
            OBVIOUS
        <3>. QED BY <1>3, <2>1, <2>2, <3>1, Zenon
    <2>5. <<a, x[1]>> \in Paths /\ args \in Seq(Paths)
        BY <1>0, <1>3, <2>2, Short DEF Paths
    <2>. QED BY <2>1, <2>3, <2>4, <2>5
<1>4. ASSUME NEW a \in Segments, NEW x \in Id, NEW y \in Id, IsWord(a), p = <<a, Arg, Arg>>, args = <<x, y>>
      PROVE  make_path(p, args) \in Paths /\ args \in Seq(Paths) /\ RuleMatches(p, make_path(p, args))
             /\ MatchedArgs(p, make_path(p, args)) = args
    <2> DEFINE path == <<a, x[1], y[1]>>
    <2>1. make_path(p, args) = path /\ MatchedArgs(p, path) = << <<path[2]>>, <<path[3]>> >>
        BY <1>4, WordAndArgs
    <2>2. x = <<x[1]>> /\ x[1] \in Segments /\ x[1] # "" /\ y = <<y[1]>> /\ y[1] \in Segments /\ y[1] # ""
        BY IdIs
    <2>3. RuleMatches(p, path)
        <3>1. Len(p) = 3 /\ p[1] = a /\ p[2] = Arg /\ p[3] = Arg
            BY <1>4
        <3>2. Len(path) = 3 /\ path[1] = a /\ path[2] # "" /\ path[3] = y[1]
            BY <2>2
        <3>3. path[3] # ""
            BY <1>4, <2>2, <3>2 DEF IsWord
        <3> HIDE DEF path
        <3>4. Segment(p, path, 1) /\ Segment(p, path, 2) /\ Segment(p, path, 3)
            BY <1>4, <3>1, <3>2, <3>3 DEF Segment, IsWord
        <3>5. Len(p) = 3 /\ Len(path) = 3
            BY <3>1, <3>2
        <3>6. \A i \in 1..3 : Segment(p, path, i)
            BY <3>4
        <3>. QED BY <3>5, <3>6, Matching
    <2>4. MatchedArgs(p, path) = args
        <3>1. path[2] = x[1] /\ path[3] = y[1]
            OBVIOUS
        <3> HIDE DEF path
        <3>. QED BY <1>4, <2>1, <2>2, <3>1, Zenon
    <2>5. path \in Paths /\ args \in Seq(Paths)
        BY <1>0, <1>4, <2>2, Short DEF Paths
    <2> HIDE DEF path
    <2>. QED BY <2>1, <2>3, <2>4, <2>5
<1>5. ASSUME NEW a \in Segments, NEW b \in Segments, NEW x \in Id, IsWord(a), IsWord(b), p = <<a, Arg, b>>, args = <<x>>
      PROVE  make_path(p, args) \in Paths /\ args \in Seq(Paths) /\ RuleMatches(p, make_path(p, args))
             /\ MatchedArgs(p, make_path(p, args)) = args
    <2> DEFINE path == <<a, x[1], b>>
    <2>1. make_path(p, args) = path /\ MatchedArgs(p, path) = << <<path[2]>> >>
        BY <1>5, WordArgWord
    <2>2. x = <<x[1]>> /\ x[1] \in Segments /\ x[1] # ""
        BY IdIs
    <2>3. RuleMatches(p, path)
        <3>1. Len(p) = 3 /\ p[1] = a /\ p[2] = Arg /\ p[3] = b
            BY <1>5
        <3>2. Len(path) = 3 /\ path[1] = a /\ path[2] # "" /\ path[3] = b
            BY <2>2
        <3>3. path[3] # ""
            BY <1>5, <2>2, <3>2 DEF IsWord
        <3> HIDE DEF path
        <3>4. Segment(p, path, 1) /\ Segment(p, path, 2) /\ Segment(p, path, 3)
            BY <1>5, <3>1, <3>2, <3>3 DEF Segment, IsWord
        <3>5. Len(p) = 3 /\ Len(path) = 3
            BY <3>1, <3>2
        <3>6. \A i \in 1..3 : Segment(p, path, i)
            BY <3>4
        <3>. QED BY <3>5, <3>6, Matching
    <2>4. MatchedArgs(p, path) = args
        <3>1. path[2] = x[1]
            OBVIOUS
        <3> HIDE DEF path
        <3>. QED BY <1>5, <2>1, <2>2, <3>1, Zenon
    <2>5. path \in Paths /\ args \in Seq(Paths)
        BY <1>0, <1>5, <2>2, Short DEF Paths
    <2> HIDE DEF path
    <2>. QED BY <2>1, <2>3, <2>4, <2>5
<1>. QED BY <1>1, <1>2, <1>3, <1>4, <1>5 DEF Fits

\* A place which a pattern matches has an argument for each of its parameters.
LEMMA MatchedFits ==
    ASSUME NEW p, Shape(p), NEW path \in Paths, RuleMatches(p, path)
    PROVE  Fits(p, MatchedArgs(p, path))
<1>0. ASSUME NEW i \in 1..Len(p) PROVE path[i] \in Segments /\ path[i] # "" /\ <<path[i]>> \in Id
    <2>1. i \in 1..Len(path) /\ path[i] # ""
        BY DEF RuleMatches
    <2>2. path[i] \in Segments
        BY <2>1, ElementOfSeq DEF Paths
    <2>. QED BY <2>1, <2>2 DEF Id
<1>1. CASE p = <<>>
    <2>1. path = <<>>
        BY <1>1, EmptySeq DEF RuleMatches, Paths
    <2>. QED BY <1>1, <2>1, NoSegment DEF Fits
<1>2. ASSUME NEW a \in Segments, IsWord(a), p = <<a>> PROVE Fits(p, MatchedArgs(p, path))
    BY <1>2, OneWord DEF Fits
<1>3. ASSUME NEW a \in Segments, IsWord(a), p = <<a, Arg>> PROVE Fits(p, MatchedArgs(p, path))
    <2>1. MatchedArgs(p, path) = << <<path[2]>> >> /\ <<path[2]>> \in Id
        <3>1. 2 \in 1..Len(p)
            BY <1>3
        <3>2. <<path[2]>> \in Id
            BY <1>0, <3>1
        <3>3. \A x \in Id : MatchedArgs(<<a, Arg>>, path) = << <<path[2]>> >>
            BY <1>3, WordAndArg
        <3>. QED BY <1>3, <3>2, <3>3
    <2>. QED BY <1>3, <2>1 DEF Fits
<1>4. ASSUME NEW a \in Segments, IsWord(a), p = <<a, Arg, Arg>> PROVE Fits(p, MatchedArgs(p, path))
    <2>1. 2 \in 1..Len(p) /\ 3 \in 1..Len(p)
        BY <1>4
    <2>2. <<path[2]>> \in Id /\ <<path[3]>> \in Id
        BY <1>0, <2>1
    <2>3. \A x \in Id : MatchedArgs(<<a, Arg, Arg>>, path) = << <<path[2]>>, <<path[3]>> >>
        BY <1>4, WordAndArgs
    <2>. QED BY <1>4, <2>2, <2>3 DEF Fits
<1>5. ASSUME NEW a \in Segments, NEW b \in Segments, IsWord(a), IsWord(b), p = <<a, Arg, b>>
      PROVE  Fits(p, MatchedArgs(p, path))
    <2>1. 2 \in 1..Len(p)
        BY <1>5
    <2>2. <<path[2]>> \in Id
        BY <1>0, <2>1
    <2>3. \A x \in Id : MatchedArgs(<<a, Arg, b>>, path) = << <<path[2]>> >>
        BY <1>5, WordArgWord
    <2>. QED BY <1>5, <2>2, <2>3 DEF Fits
<1>. QED BY <1>1, <1>2, <1>3, <1>4, <1>5 DEF Shape

-----------------------------------------------------------------------------
(* The route tables *)

\* No place is matched by both of two patterns.
Apart(p, q) ==
    \/ Len(p) # Len(q)
    \/ Len(p) > 0 /\ p[1] # q[1]
    \/ Len(p) = 3 /\ p[3] # Arg /\ q[3] # Arg /\ p[3] # q[3]

\* A table which can be read in both directions: one rule for each view, and at most one for a place.
Table(routes) ==
    /\ Len(routes) \in Nat
    /\ \A i \in 1..Len(routes) : Shape(routes[i].pattern) /\ routes[i].view \in Segments \ {"none"}
    /\ \A i, j \in 1..Len(routes) :
         i # j => routes[i].view # routes[j].view /\ Apart(routes[i].pattern, routes[j].pattern)

\* UrlRule.match() cannot take a place for that of a rule whose pattern is apart.
LEMMA ApartPatterns ==
    ASSUME NEW p, NEW q, Shape(p), Shape(q), Apart(p, q), NEW path, RuleMatches(p, path)
    PROVE  ~RuleMatches(q, path)
<1>. SUFFICES ASSUME RuleMatches(q, path) PROVE FALSE
    OBVIOUS
<1>1. ASSUME NEW r, Shape(r)
      PROVE  Len(r) \in 0..3 /\ (Len(r) > 0 => r[1] # Arg)
    <2>1. CASE r = <<>>
        BY <2>1
    <2>2. ASSUME NEW a, a # Arg, r = <<a>> \/ r = <<a, Arg>> \/ r = <<a, Arg, Arg>>
          PROVE  Len(r) \in 0..3 /\ r[1] # Arg
        <3>1. CASE r = <<a>>
            BY <2>2, <3>1
        <3>2. CASE r = <<a, Arg>>
            BY <2>2, <3>2
        <3>3. CASE r = <<a, Arg, Arg>>
            BY <2>2, <3>3
        <3>. QED BY <2>2, <3>1, <3>2, <3>3
    <2>3. ASSUME NEW a, NEW b, a # Arg, r = <<a, Arg, b>>
          PROVE  Len(r) \in 0..3 /\ r[1] # Arg
        BY <2>3
    <2>4. \/ r = <<>>
          \/ \E a : a # Arg /\ (r = <<a>> \/ r = <<a, Arg>> \/ r = <<a, Arg, Arg>>)
          \/ \E a, b : a # Arg /\ r = <<a, Arg, b>>
        BY <1>1, Zenon DEF Shape, IsWord
    <2>. QED BY <2>1, <2>2, <2>3, <2>4
<1>2. Len(p) = Len(q) /\ Len(p) = Len(path)
    BY DEF RuleMatches
<1>3. CASE Len(p) > 0 /\ p[1] # q[1]
    <2>1. 1 \in 1..Len(path)
        BY <1>1, <1>2, <1>3
    <2>2. p[1] = path[1] /\ q[1] = path[1]
        BY <1>1, <1>2, <1>3, <2>1 DEF RuleMatches
    <2>. QED BY <1>3, <2>2
<1>4. CASE Len(p) = 3 /\ p[3] # Arg /\ q[3] # Arg /\ p[3] # q[3]
    <2>1. 3 \in 1..Len(path)
        BY <1>2, <1>4
    <2>2. p[3] = path[3] /\ q[3] = path[3]
        BY <1>4, <2>1 DEF RuleMatches
    <2>. QED BY <1>4, <2>2
<1>. QED BY <1>2, <1>3, <1>4 DEF Apart

\* Plugin._dispatch() finds the only rule which matches.
LEMMA Dispatched ==
    ASSUME NEW routes, Table(routes), NEW i \in 1..Len(routes), NEW path, RuleMatches(routes[i].pattern, path)
    PROVE  _dispatch(routes, path) = [view |-> routes[i].view, args |-> MatchedArgs(routes[i].pattern, path)]
<1> DEFINE hits == {j \in 1..Len(routes) : RuleMatches(routes[j].pattern, path)}
<1>1. hits = {i}
    <2>1. \A j \in 1..Len(routes) : j # i => ~RuleMatches(routes[j].pattern, path)
        BY ApartPatterns DEF Table
    <2>. QED BY <2>1
<1>2. i \in Nat
    OBVIOUS
<1>3. (CHOOSE k \in {i} : \A j \in {i} : k <= j) = i
    BY <1>2
<1> HIDE DEF hits
<1>4. (CHOOSE k \in hits : \A j \in hits : k <= j) = i /\ hits # {}
    BY <1>1, <1>3, Zenon
<1>. QED BY <1>4, Zenon DEF _dispatch, hits

\* Plugin.url_for() finds the only rule of a view.
LEMMA Named ==
    ASSUME NEW routes, Table(routes), NEW i \in 1..Len(routes), NEW args
    PROVE  url_for(routes, routes[i].view, args) = make_path(routes[i].pattern, args)
<1>1. (CHOOSE j \in 1..Len(routes) : routes[j].view = routes[i].view) = i
    BY DEF Table
<1>. QED BY <1>1, Zenon DEF url_for

\* A place is asked for with arguments which its view can be called with, or leads nowhere.
LEMMA Asked ==
    ASSUME NEW routes, Table(routes), NEW path \in Paths
    PROVE  LET to == _dispatch(routes, path)
           IN  \/ to.view = "none"
               \/ \E i \in 1..Len(routes) : to.view = routes[i].view /\ Fits(routes[i].pattern, to.args)
<1>1. CASE \A i \in 1..Len(routes) : ~RuleMatches(routes[i].pattern, path)
    <2>1. {i \in 1..Len(routes) : RuleMatches(routes[i].pattern, path)} = {}
        BY <1>1
    <2>. QED BY <2>1 DEF _dispatch, NoView
<1>2. ASSUME NEW i \in 1..Len(routes), RuleMatches(routes[i].pattern, path)
      PROVE  /\ _dispatch(routes, path).view = routes[i].view
             /\ Fits(routes[i].pattern, _dispatch(routes, path).args)
    BY <1>2, Dispatched, MatchedFits DEF Table
<1>. QED BY <1>1, <1>2

-----------------------------------------------------------------------------
(* The entries *)

Entries == [kind : {"ct", "it"}, title : Seq(Paths), to : [view : Segments, args : Seq(Paths)], path : Paths]

\* EntriesLeadBack, of one entry.
LeadsBack(routes, e) ==
    IF e.kind = "it" THEN trackid_from_urlpath(e.path) = e.to.args[1] /\ e.to.args[1] \notin Unavailable
    ELSE /\ _dispatch(routes, e.path) = e.to
         /\ (e.title = <<>> \/ e.title[1] = e.to.args[1])

\* The entries which lead back; a track is asked for later with the identifier in its address.
Leading(routes) ==
    {e \in Entries : LeadsBack(routes, e) /\ (e.kind = "it" => trackid_from_urlpath(e.path) \in Paths)}

\* A container leads back, with any title which is that of its argument.
LEMMA EntryLeads ==
    ASSUME NEW routes, Table(routes), NEW i \in 1..Len(routes), NEW view, view = routes[i].view, NEW args,
           Fits(routes[i].pattern, args), NEW title \in Seq(Paths), title = <<>> \/ title[1] = args[1]
    PROVE  [add_directory(routes, view, args) EXCEPT !.title = title] \in Leading(routes)
<1> DEFINE path == make_path(routes[i].pattern, args)
           e == [kind |-> "ct", title |-> title, to |-> [view |-> view, args |-> args], path |-> path]
<1>1. path \in Paths /\ args \in Seq(Paths) /\ RuleMatches(routes[i].pattern, path)
      /\ MatchedArgs(routes[i].pattern, path) = args
    BY FittedPath
<1>2. url_for(routes, view, args) = path
    BY Named
<1> HIDE DEF path
<1>3. [add_directory(routes, view, args) EXCEPT !.title = title] = e
    BY <1>2 DEF add_directory
<1>4. _dispatch(routes, path) = [view |-> view, args |-> args]
    BY <1>1, Dispatched
<1>5. view \in Segments
    BY DEF Table
<1>6. e \in Entries
    BY <1>1, <1>5 DEF Entries
<1>7. LeadsBack(routes, e)
    BY <1>4 DEF LeadsBack
<1>. QED BY <1>3, <1>6, <1>7 DEF Leading

LEMMA DirectoryLeads ==
    ASSUME NEW routes, Table(routes), NEW i \in 1..Len(routes), NEW view, view = routes[i].view, NEW args,
           Fits(routes[i].pattern, args)
    PROVE  add_directory(routes, view, args) \in Leading(routes)
<1>1. args \in Seq(Paths)
    BY FittedPath
<1>2. [add_directory(routes, view, args) EXCEPT !.title = args] \in Leading(routes)
    BY <1>1, EntryLeads
<1>3. [add_directory(routes, view, args) EXCEPT !.title = args] = add_directory(routes, view, args)
    BY DEF add_directory
<1>. QED BY <1>2, <1>3

\* The entry of a view which has no parameter.
LEMMA PlainLeads ==
    ASSUME NEW routes, Table(routes), NEW i \in 1..Len(routes), NEW a \in Segments, IsWord(a), NEW view,
           routes[i] = Route(view, <<a>>)
    PROVE  add_directory(routes, view, <<>>) \in Leading(routes)
<1>1. routes[i].view = view /\ routes[i].pattern = <<a>>
    BY DEF Route
<1>2. Fits(routes[i].pattern, <<>>)
    BY <1>1, Zenon DEF Fits
<1>. QED BY <1>1, <1>2, DirectoryLeads

Ids == {x \in Id : x \notin HttpIds}

LEMMA IdListIs ==
    ASSUME NEW list, IsIdList(list)
    PROVE  list \in Seq(Ids)
<1>1. list \in Seq(Seq(STRING)) /\ Len(list) \in Nat /\ \A i \in 1..Len(list) : IsId(list[i])
    BY LenProperties DEF IsIdList
<1>2. ASSUME NEW x, IsId(x) PROVE x \in Ids
    <2>1. Len(x) = 1 /\ x[1] # "" /\ x \notin HttpIds
        BY <1>2 DEF IsId
    <2>4. x \in Seq(Segments) /\ Len(x) = 1
        <3>1. x \in Seq(STRING) /\ STRING \subseteq Segments
            BY <1>2 DEF IsId, Segments
        <3>. QED BY <2>1, <3>1, SeqMonotonic
    <2>2. x[1] \in Segments
        BY <2>4, ElementOfSeq
    <2>3. x = <<x[1]>>
        <3>1. <<x[1]>> \in Seq(Segments) /\ Len(<<x[1]>>) = 1 /\ <<x[1]>>[1] = x[1]
            BY <2>2, Short
        <3>2. Len(x) = Len(<<x[1]>>) /\ \A i \in 1..Len(x) : x[i] = <<x[1]>>[i]
            BY <2>4, <3>1
        <3>. QED BY <2>4, <3>1, <3>2, SeqEqual
    <2>. QED BY <2>1, <2>2, <2>3 DEF Ids, Id
<1>3. \A i \in 1..Len(list) : list[i] \in Ids
    BY <1>1, <1>2
<1>. QED BY <1>1, <1>3, IsASeq, LenProperties

\* The entries made of identifiers: none of them is left out, so that the titles are theirs.
LEMMA ViewLeads ==
    ASSUME NEW routes, Table(routes), NEW i \in 1..Len(routes), NEW a \in Segments, IsWord(a), NEW view,
           routes[i] = Route(view, <<a, Arg>>), NEW ids \in Seq(Ids)
    PROVE  View(routes, view, ids) \in Seq(Leading(routes))
<1>1. routes[i].view = view /\ routes[i].pattern = <<a, Arg>>
    BY DEF Route
<1>2. Len(ids) \in Nat /\ \A k \in 1..Len(ids) : ids[k] \in Id /\ ids[k] \notin HttpIds
    BY LenProperties, ElementOfSeq DEF Ids
<1>3. {k \in 1..Len(ids) : ids[k] \notin HttpIds} = 1..Len(ids)
    BY <1>2
<1> DEFINE entry(k) == [add_directory(routes, view, <<ids[k]>>) EXCEPT !.title = <<ids[k]>>]
<1>4. View(routes, view, ids) = [k \in 1..Len(ids) |-> entry(k)]
    <2>1. AtPlaces(ids, {k \in 1..Len(ids) : ids[k] \notin HttpIds}) = ids
        BY <1>3, AllPlaces
    <2>. QED BY <2>1, Zenon DEF View
<1>5. ASSUME NEW k \in 1..Len(ids) PROVE entry(k) \in Leading(routes)
    <2>1. ids[k] \in Id
        BY <1>2
    <2>2. Fits(<<a, Arg>>, << ids[k] >>)
        BY <2>1, Zenon DEF Fits
    <2>3. << ids[k] >> \in Seq(Paths)
        BY <2>2, FittedPath
    <2>. QED BY <1>1, <2>2, <2>3, EntryLeads
<1> HIDE DEF entry
<1>. QED BY <1>2, <1>4, <1>5, IsASeq

\* The tracks which can be streamed have their identifier in their address.
LEMMA TracksLead ==
    ASSUME NEW routes, NEW tracks \in Seq(Paths)
    PROVE  trackentries(tracks) \in Seq(Leading(routes))
<1> DEFINE streamed == Available(tracks)
           S == {x \in Paths : x \notin Unavailable}
           entry(k) == [kind |-> "it", title |-> << streamed[k] >>,
                        to |-> [view |-> "track", args |-> << streamed[k] >>], path |-> <<"track">> \o streamed[k]]
<1>1. streamed \in Seq(S)
    <2> DEFINE places == {i \in 1..Len(tracks) : tracks[i] \notin Unavailable}
               T == {x \in Paths : \E i \in places : x = tracks[i]}
    <2>1. AtPlaces(tracks, places) \in Seq(T)
        BY AtPlacesIs
    <2>2. T \subseteq S
        OBVIOUS
    <2>3. streamed = AtPlaces(tracks, places)
        BY DEF Available
    <2> HIDE DEF S, T, streamed
    <2>. QED BY <2>1, <2>2, <2>3, SeqMonotonic
<1>2. trackentries(tracks) = [k \in 1..Len(streamed) |-> entry(k)]
    BY Zenon DEF trackentries
<1> HIDE DEF streamed
<1>3. Len(streamed) \in Nat /\ \A k \in 1..Len(streamed) : streamed[k] \in Paths /\ streamed[k] \notin Unavailable
    BY <1>1, LenProperties, ElementOfSeq
<1>4. ASSUME NEW x \in Paths PROVE <<"track">> \o x \in Paths /\ Tail(<<"track">> \o x) = x
    <2>0. "track" \in Segments
        BY DEF Segments, Words
    <2>1. <<"track">> \in Seq(Segments) /\ x \in Seq(Segments)
        BY <2>0, Short, Zenon DEF Paths
    <2>2. /\ <<"track">> \o x \in Seq(Segments) /\ Len(<<"track">> \o x) = 1 + Len(x)
          /\ \A i \in 1..1 + Len(x) : (<<"track">> \o x)[i] = IF i <= 1 THEN "track" ELSE x[i - 1]
        BY <2>1, ConcatProperties
    <2> DEFINE w == <<"track">> \o x
    <2> HIDE DEF w
    <2>3. w \in Seq(Segments) /\ w # <<>> /\ Len(w) = Len(x) + 1 /\ Len(x) \in Nat
        BY <2>1, <2>2, LenProperties DEF w
    <2>4. Tail(w) \in Seq(Segments) /\ Len(Tail(w)) = Len(x)
          /\ \A i \in 1..Len(x) : Tail(w)[i] = w[i + 1]
        BY <2>3, HeadTailProperties
    <2>5. \A i \in 1..Len(x) : Tail(w)[i] = x[i]
        BY <2>2, <2>3, <2>4 DEF w
    <2>6. Tail(w) = x
        BY <2>1, <2>4, <2>5, SeqEqual
    <2>. QED BY <2>2, <2>6 DEF Paths, w
<1>5. ASSUME NEW k \in 1..Len(streamed) PROVE entry(k) \in Leading(routes)
    <2> DEFINE x == streamed[k]
    <2>1. x \in Paths /\ x \notin Unavailable
        BY <1>3
    <2> HIDE DEF x
    <2>2. <<"track">> \o x \in Paths /\ trackid_from_urlpath(<<"track">> \o x) = x
        BY <1>4, <2>1 DEF trackid_from_urlpath
    <2> DEFINE path == <<"track">> \o x
               e == [kind |-> "it", title |-> <<x>>, to |-> [view |-> "track", args |-> <<x>>], path |-> path]
    <2> HIDE DEF path
    <2>6. path \in Paths /\ <<x>> \in Seq(Paths)
        BY <2>1, <2>2, Short DEF path
    <2>3. e \in Entries
        <3>1. [view |-> "track", args |-> <<x>>] \in [view : Segments, args : Seq(Paths)]
            BY <2>6 DEF Segments, Words
        <3>. QED BY <2>6, <3>1 DEF Entries
    <2>4. LeadsBack(routes, e) /\ trackid_from_urlpath(e.path) \in Paths
        BY <2>1, <2>2 DEF LeadsBack, path
    <2>5. e \in Leading(routes)
        BY <2>3, <2>4 DEF Leading
    <2>. QED BY <2>5 DEF path, x
<1> HIDE DEF entry
<1>. QED BY <1>2, <1>3, <1>5, IsASeq

-----------------------------------------------------------------------------
(* The tables of the services *)

\* Each table is read once, rule by rule: the lemmas after this only use what Table says of it.
LEMMA WordsAre == \A w \in Words : w # "none" /\ IsWord(w)
<1>1. "none" \notin Words /\ "<>" \notin Words /\ "" \notin Words
    BY DEF Words
<1>2. \A w \in Words : w \in Segments
    BY Zenon DEF Segments
<1>. QED BY <1>1, <1>2, Zenon DEF IsWord, Arg

LEMMA ShapeOf ==
    /\ Shape(<<>>)
    /\ \A a \in Words : Shape(<<a>>) /\ Shape(<<a, Arg>>) /\ Shape(<<a, Arg, Arg>>)
    /\ \A a, b \in Words : Shape(<<a, Arg, b>>)
<1>1. ASSUME NEW a \in Words PROVE a \in Segments /\ IsWord(a)
    BY WordsAre DEF Segments
<1> HIDE DEF Words
<1>. QED BY <1>1, Zenon DEF Shape

LEMMA QobuzTable == Table(QobuzRoutes)
<1> DEFINE v(i) == QobuzRoutes[i].view
           p(i) == QobuzRoutes[i].pattern
<1>1. Len(QobuzRoutes) = 16
    BY DEF QobuzRoutes
<1>2. /\ v(1) = "root" /\ p(1) = <<>>
      /\ v(2) = "root_genres" /\ p(2) = <<"root_genres">>
      /\ v(3) = "genre_view" /\ p(3) = <<"genre", Arg>>
      /\ v(4) = "genre_view_type" /\ p(4) = <<"featured", Arg, Arg>>
      /\ v(5) = "genre_view_playlists" /\ p(5) = <<"featured_playlists", Arg>>
      /\ v(6) = "whats_new" /\ p(6) = <<"whats_new">>
      /\ v(7) = "featured" /\ p(7) = <<"featured", Arg>>
      /\ v(8) = "my_music" /\ p(8) = <<"my_music">>
      /\ v(9) = "album_view" /\ p(9) = <<"album", Arg>>
      /\ v(10) = "playlist_view" /\ p(10) = <<"playlist", Arg>>
      /\ v(11) = "artist_view" /\ p(11) = <<"artist", Arg>>
      /\ v(12) = "similar_artists" /\ p(12) = <<"artist", Arg, "similar">>
      /\ v(13) = "favourite_tracks" /\ p(13) = <<"favourite_tracks">>
      /\ v(14) = "favourite_artists" /\ p(14) = <<"favourite_artists">>
      /\ v(15) = "favourite_albums" /\ p(15) = <<"favourite_albums">>
      /\ v(16) = "favourite_playlists" /\ p(16) = <<"favourite_playlists">>
    BY DEF QobuzRoutes, Route
<1> HIDE DEF v, p
<1> DEFINE len(i) == Len(p(i))
           one(i) == p(i)[1]
           three(i) == p(i)[3]
<1>3. /\ v(1) = "root" /\ len(1) = 0
      /\ v(2) = "root_genres" /\ len(2) = 1 /\ one(2) = "root_genres"
      /\ v(3) = "genre_view" /\ len(3) = 2 /\ one(3) = "genre"
      /\ v(4) = "genre_view_type" /\ len(4) = 3 /\ one(4) = "featured" /\ three(4) = "<>"
      /\ v(5) = "genre_view_playlists" /\ len(5) = 2 /\ one(5) = "featured_playlists"
      /\ v(6) = "whats_new" /\ len(6) = 1 /\ one(6) = "whats_new"
      /\ v(7) = "featured" /\ len(7) = 2 /\ one(7) = "featured"
      /\ v(8) = "my_music" /\ len(8) = 1 /\ one(8) = "my_music"
      /\ v(9) = "album_view" /\ len(9) = 2 /\ one(9) = "album"
      /\ v(10) = "playlist_view" /\ len(10) = 2 /\ one(10) = "playlist"
      /\ v(11) = "artist_view" /\ len(11) = 2 /\ one(11) = "artist"
      /\ v(12) = "similar_artists" /\ len(12) = 3 /\ one(12) = "artist" /\ three(12) = "similar"
      /\ v(13) = "favourite_tracks" /\ len(13) = 1 /\ one(13) = "favourite_tracks"
      /\ v(14) = "favourite_artists" /\ len(14) = 1 /\ one(14) = "favourite_artists"
      /\ v(15) = "favourite_albums" /\ len(15) = 1 /\ one(15) = "favourite_albums"
      /\ v(16) = "favourite_playlists" /\ len(16) = 1 /\ one(16) = "favourite_playlists"
    BY <1>2 DEF Arg
<1> HIDE DEF len, one, three
<1>4. ASSUME NEW i \in 1..16 PROVE Shape(p(i)) /\ v(i) \in Segments \ {"none"}
    <2>1. v(i) \in Words
        BY <1>3 DEF Words
    <2>2. Shape(p(i))
        <3>1. {"album", "artist", "favourite_albums", "favourite_artists", "favourite_playlists",
               "favourite_tracks", "featured", "featured_playlists", "genre", "my_music",
               "playlist", "root_genres", "similar", "whats_new"} \subseteq Words
            BY DEF Words
        <3>2. /\ Shape(p(1)) /\ Shape(p(2)) /\ Shape(p(3)) /\ Shape(p(4))
              /\ Shape(p(5)) /\ Shape(p(6)) /\ Shape(p(7)) /\ Shape(p(8))
              /\ Shape(p(9)) /\ Shape(p(10)) /\ Shape(p(11)) /\ Shape(p(12))
            BY <1>2, <3>1, ShapeOf, Zenon
        <3>3. /\ Shape(p(13)) /\ Shape(p(14)) /\ Shape(p(15)) /\ Shape(p(16))
            BY <1>2, <3>1, ShapeOf, Zenon
        <3>. QED BY <3>2, <3>3
    <2>. QED BY <2>1, <2>2, WordsAre DEF Segments
<1>5. ASSUME NEW i \in 1..16, NEW j \in 1..16, i # j
       PROVE  /\ v(i) # v(j)
              /\ \/ len(i) # len(j)
                 \/ len(i) > 0 /\ one(i) # one(j)
                 \/ len(i) = 3 /\ three(i) # "<>" /\ three(j) # "<>" /\ three(i) # three(j)
    <2>1. CASE i = 1 BY <1>3, <1>5, <2>1
    <2>2. CASE i = 2 BY <1>3, <1>5, <2>2
    <2>3. CASE i = 3 BY <1>3, <1>5, <2>3
    <2>4. CASE i = 4 BY <1>3, <1>5, <2>4
    <2>5. CASE i = 5 BY <1>3, <1>5, <2>5
    <2>6. CASE i = 6 BY <1>3, <1>5, <2>6
    <2>7. CASE i = 7 BY <1>3, <1>5, <2>7
    <2>8. CASE i = 8 BY <1>3, <1>5, <2>8
    <2>9. CASE i = 9 BY <1>3, <1>5, <2>9
    <2>10. CASE i = 10 BY <1>3, <1>5, <2>10
    <2>11. CASE i = 11 BY <1>3, <1>5, <2>11
    <2>12. CASE i = 12 BY <1>3, <1>5, <2>12
    <2>13. CASE i = 13 BY <1>3, <1>5, <2>13
    <2>14. CASE i = 14 BY <1>3, <1>5, <2>14
    <2>15. CASE i = 15 BY <1>3, <1>5, <2>15
    <2>16. CASE i = 16 BY <1>3, <1>5, <2>16
    <2>. QED BY <2>1, <2>2, <2>3, <2>4, <2>5, <2>6, <2>7, <2>8, <2>9, <2>10, <2>11, <2>12, <2>13, <2>14, <2>15, <2>16
<1>6. ASSUME NEW i \in 1..16, NEW j \in 1..16, i # j PROVE v(i) # v(j) /\ Apart(p(i), p(j))
    BY <1>6, <1>5, Zenon DEF Apart, Arg, len, one, three
<1>7. \A i, j \in 1..16 : i # j => v(i) # v(j) /\ Apart(p(i), p(j))
    BY <1>6, Zenon
<1>8. \A i \in 1..16 : Shape(p(i)) /\ v(i) \in Segments \ {"none"}
    BY <1>4, Zenon
<1>9. Len(QobuzRoutes) \in Nat
    BY <1>1
<1>. QED BY <1>1, <1>7, <1>8, <1>9, Zenon DEF Table, v, p

LEMMA TidalTable == Table(TidalRoutes)
<1> DEFINE v(i) == TidalRoutes[i].view
           p(i) == TidalRoutes[i].pattern
<1>1. Len(TidalRoutes) = 24
    BY DEF TidalRoutes
<1>2. /\ v(1) = "root" /\ p(1) = <<>>
      /\ v(2) = "track_radio" /\ p(2) = <<"track_radio", Arg>>
      /\ v(3) = "moods" /\ p(3) = <<"moods">>
      /\ v(4) = "moods_playlists" /\ p(4) = <<"moods", Arg>>
      /\ v(5) = "genres" /\ p(5) = <<"genres">>
      /\ v(6) = "genre_view" /\ p(6) = <<"genre", Arg>>
      /\ v(7) = "genre_playlists" /\ p(7) = <<"genre", Arg, "playlists">>
      /\ v(8) = "genre_albums" /\ p(8) = <<"genre", Arg, "albums">>
      /\ v(9) = "genre_tracks" /\ p(9) = <<"genre", Arg, "tracks">>
      /\ v(10) = "featured_playlists" /\ p(10) = <<"featured_playlists">>
      /\ v(11) = "whats_new" /\ p(11) = <<"whats_new">>
      /\ v(12) = "featured" /\ p(12) = <<"featured", Arg, Arg>>
      /\ v(13) = "my_music" /\ p(13) = <<"my_music">>
      /\ v(14) = "album_view" /\ p(14) = <<"album", Arg>>
      /\ v(15) = "artist_view" /\ p(15) = <<"artist", Arg>>
      /\ v(16) = "artist_radio" /\ p(16) = <<"artist", Arg, "radio">>
      /\ v(17) = "top_tracks" /\ p(17) = <<"artist", Arg, "top">>
      /\ v(18) = "similar_artists" /\ p(18) = <<"artist", Arg, "similar">>
      /\ v(19) = "playlist_view" /\ p(19) = <<"playlist", Arg>>
      /\ v(20) = "my_playlists" /\ p(20) = <<"user_playlists">>
      /\ v(21) = "favourite_playlists" /\ p(21) = <<"favourite_playlists">>
      /\ v(22) = "favourite_artists" /\ p(22) = <<"favourite_artists">>
      /\ v(23) = "favourite_albums" /\ p(23) = <<"favourite_albums">>
      /\ v(24) = "favourite_tracks" /\ p(24) = <<"favourite_tracks">>
    BY DEF TidalRoutes, Route
<1> HIDE DEF v, p
<1> DEFINE len(i) == Len(p(i))
           one(i) == p(i)[1]
           three(i) == p(i)[3]
<1>3. /\ v(1) = "root" /\ len(1) = 0
      /\ v(2) = "track_radio" /\ len(2) = 2 /\ one(2) = "track_radio"
      /\ v(3) = "moods" /\ len(3) = 1 /\ one(3) = "moods"
      /\ v(4) = "moods_playlists" /\ len(4) = 2 /\ one(4) = "moods"
      /\ v(5) = "genres" /\ len(5) = 1 /\ one(5) = "genres"
      /\ v(6) = "genre_view" /\ len(6) = 2 /\ one(6) = "genre"
      /\ v(7) = "genre_playlists" /\ len(7) = 3 /\ one(7) = "genre" /\ three(7) = "playlists"
      /\ v(8) = "genre_albums" /\ len(8) = 3 /\ one(8) = "genre" /\ three(8) = "albums"
      /\ v(9) = "genre_tracks" /\ len(9) = 3 /\ one(9) = "genre" /\ three(9) = "tracks"
      /\ v(10) = "featured_playlists" /\ len(10) = 1 /\ one(10) = "featured_playlists"
      /\ v(11) = "whats_new" /\ len(11) = 1 /\ one(11) = "whats_new"
      /\ v(12) = "featured" /\ len(12) = 3 /\ one(12) = "featured" /\ three(12) = "<>"
      /\ v(13) = "my_music" /\ len(13) = 1 /\ one(13) = "my_music"
      /\ v(14) = "album_view" /\ len(14) = 2 /\ one(14) = "album"
      /\ v(15) = "artist_view" /\ len(15) = 2 /\ one(15) = "artist"
      /\ v(16) = "artist_radio" /\ len(16) = 3 /\ one(16) = "artist" /\ three(16) = "radio"
      /\ v(17) = "top_tracks" /\ len(17) = 3 /\ one(17) = "artist" /\ three(17) = "top"
      /\ v(18) = "similar_artists" /\ len(18) = 3 /\ one(18) = "artist" /\ three(18) = "similar"
      /\ v(19) = "playlist_view" /\ len(19) = 2 /\ one(19) = "playlist"
      /\ v(20) = "my_playlists" /\ len(20) = 1 /\ one(20) = "user_playlists"
      /\ v(21) = "favourite_playlists" /\ len(21) = 1 /\ one(21) = "favourite_playlists"
      /\ v(22) = "favourite_artists" /\ len(22) = 1 /\ one(22) = "favourite_artists"
      /\ v(23) = "favourite_albums" /\ len(23) = 1 /\ one(23) = "favourite_albums"
      /\ v(24) = "favourite_tracks" /\ len(24) = 1 /\ one(24) = "favourite_tracks"
    BY <1>2 DEF Arg
<1> HIDE DEF len, one, three
<1>4. ASSUME NEW i \in 1..24 PROVE Shape(p(i)) /\ v(i) \in Segments \ {"none"}
    <2>1. v(i) \in Words
        BY <1>3 DEF Words
    <2>2. Shape(p(i))
        <3>1. {"album", "albums", "artist", "favourite_albums", "favourite_artists",
               "favourite_playlists", "favourite_tracks", "featured", "featured_playlists",
               "genre", "genres", "moods", "my_music", "playlist", "playlists", "radio",
               "similar", "top", "track_radio", "tracks", "user_playlists", "whats_new"} \subseteq Words
            BY DEF Words
        <3>2. /\ Shape(p(1)) /\ Shape(p(2)) /\ Shape(p(3)) /\ Shape(p(4))
              /\ Shape(p(5)) /\ Shape(p(6)) /\ Shape(p(7)) /\ Shape(p(8))
              /\ Shape(p(9)) /\ Shape(p(10)) /\ Shape(p(11)) /\ Shape(p(12))
            BY <1>2, <3>1, ShapeOf, Zenon
        <3>3. /\ Shape(p(13)) /\ Shape(p(14)) /\ Shape(p(15)) /\ Shape(p(16))
              /\ Shape(p(17)) /\ Shape(p(18)) /\ Shape(p(19)) /\ Shape(p(20))
              /\ Shape(p(21)) /\ Shape(p(22)) /\ Shape(p(23)) /\ Shape(p(24))
            BY <1>2, <3>1, ShapeOf, Zenon
        <3>. QED BY <3>2, <3>3
    <2>. QED BY <2>1, <2>2, WordsAre DEF Segments
<1>5. ASSUME NEW i \in 1..24, NEW j \in 1..24, i # j
       PROVE  /\ v(i) # v(j)
              /\ \/ len(i) # len(j)
                 \/ len(i) > 0 /\ one(i) # one(j)
                 \/ len(i) = 3 /\ three(i) # "<>" /\ three(j) # "<>" /\ three(i) # three(j)
    <2>1. CASE i = 1 BY <1>3, <1>5, <2>1
    <2>2. CASE i = 2 BY <1>3, <1>5, <2>2
    <2>3. CASE i = 3 BY <1>3, <1>5, <2>3
    <2>4. CASE i = 4 BY <1>3, <1>5, <2>4
    <2>5. CASE i = 5 BY <1>3, <1>5, <2>5
    <2>6. CASE i = 6 BY <1>3, <1>5, <2>6
    <2>7. CASE i = 7 BY <1>3, <1>5, <2>7
    <2>8. CASE i = 8 BY <1>3, <1>5, <2>8
    <2>9. CASE i = 9 BY <1>3, <1>5, <2>9
    <2>10. CASE i = 10 BY <1>3, <1>5, <2>10
    <2>11. CASE i = 11 BY <1>3, <1>5, <2>11
    <2>12. CASE i = 12 BY <1>3, <1>5, <2>12
    <2>13. CASE i = 13 BY <1>3, <1>5, <2>13
    <2>14. CASE i = 14 BY <1>3, <1>5, <2>14
    <2>15. CASE i = 15 BY <1>3, <1>5, <2>15
    <2>16. CASE i = 16 BY <1>3, <1>5, <2>16
    <2>17. CASE i = 17 BY <1>3, <1>5, <2>17
    <2>18. CASE i = 18 BY <1>3, <1>5, <2>18
    <2>19. CASE i = 19 BY <1>3, <1>5, <2>19
    <2>20. CASE i = 20 BY <1>3, <1>5, <2>20
    <2>21. CASE i = 21 BY <1>3, <1>5, <2>21
    <2>22. CASE i = 22 BY <1>3, <1>5, <2>22
    <2>23. CASE i = 23 BY <1>3, <1>5, <2>23
    <2>24. CASE i = 24 BY <1>3, <1>5, <2>24
    <2>. QED BY <2>1, <2>2, <2>3, <2>4, <2>5, <2>6, <2>7, <2>8, <2>9, <2>10, <2>11, <2>12, <2>13, <2>14, <2>15, <2>16, <2>17, <2>18, <2>19, <2>20, <2>21, <2>22, <2>23, <2>24
<1>6. ASSUME NEW i \in 1..24, NEW j \in 1..24, i # j PROVE v(i) # v(j) /\ Apart(p(i), p(j))
    BY <1>6, <1>5, Zenon DEF Apart, Arg, len, one, three
<1>7. \A i, j \in 1..24 : i # j => v(i) # v(j) /\ Apart(p(i), p(j))
    BY <1>6, Zenon
<1>8. \A i \in 1..24 : Shape(p(i)) /\ v(i) \in Segments \ {"none"}
    BY <1>4, Zenon
<1>9. Len(TidalRoutes) \in Nat
    BY <1>1
<1>. QED BY <1>1, <1>7, <1>8, <1>9, Zenon DEF Table, v, p

LEMMA HraTable == Table(HraRoutes)
<1> DEFINE v(i) == HraRoutes[i].view
           p(i) == HraRoutes[i].pattern
<1>1. Len(HraRoutes) = 14
    BY DEF HraRoutes
<1>2. /\ v(1) = "root" /\ p(1) = <<>>
      /\ v(2) = "allCategories" /\ p(2) = <<"allcategories">>
      /\ v(3) = "allGenres" /\ p(3) = <<"allgenres">>
      /\ v(4) = "category_view" /\ p(4) = <<"category", Arg>>
      /\ v(5) = "allEditorGenres" /\ p(5) = <<"alleditorgenres">>
      /\ v(6) = "allEditorMoods" /\ p(6) = <<"alleditormoods">>
      /\ v(7) = "allEditorThemes" /\ p(7) = <<"alleditorthemes">>
      /\ v(8) = "allEditorPlaylists" /\ p(8) = <<"alleditorplaylists">>
      /\ v(9) = "edplaylist_view" /\ p(9) = <<"editorplaylist", Arg>>
      /\ v(10) = "allUserPlaylists" /\ p(10) = <<"alluserplaylists">>
      /\ v(11) = "allUserAlbums" /\ p(11) = <<"alluseralbums">>
      /\ v(12) = "allUserTracks" /\ p(12) = <<"allusertracks">>
      /\ v(13) = "userplaylist_view" /\ p(13) = <<"userplaylist", Arg>>
      /\ v(14) = "album_view" /\ p(14) = <<"album", Arg>>
    BY DEF HraRoutes, Route
<1> HIDE DEF v, p
<1> DEFINE len(i) == Len(p(i))
           one(i) == p(i)[1]
           three(i) == p(i)[3]
<1>3. /\ v(1) = "root" /\ len(1) = 0
      /\ v(2) = "allCategories" /\ len(2) = 1 /\ one(2) = "allcategories"
      /\ v(3) = "allGenres" /\ len(3) = 1 /\ one(3) = "allgenres"
      /\ v(4) = "category_view" /\ len(4) = 2 /\ one(4) = "category"
      /\ v(5) = "allEditorGenres" /\ len(5) = 1 /\ one(5) = "alleditorgenres"
      /\ v(6) = "allEditorMoods" /\ len(6) = 1 /\ one(6) = "alleditormoods"
      /\ v(7) = "allEditorThemes" /\ len(7) = 1 /\ one(7) = "alleditorthemes"
      /\ v(8) = "allEditorPlaylists" /\ len(8) = 1 /\ one(8) = "alleditorplaylists"
      /\ v(9) = "edplaylist_view" /\ len(9) = 2 /\ one(9) = "editorplaylist"
      /\ v(10) = "allUserPlaylists" /\ len(10) = 1 /\ one(10) = "alluserplaylists"
      /\ v(11) = "allUserAlbums" /\ len(11) = 1 /\ one(11) = "alluseralbums"
      /\ v(12) = "allUserTracks" /\ len(12) = 1 /\ one(12) = "allusertracks"
      /\ v(13) = "userplaylist_view" /\ len(13) = 2 /\ one(13) = "userplaylist"
      /\ v(14) = "album_view" /\ len(14) = 2 /\ one(14) = "album"
    BY <1>2 DEF Arg
<1> HIDE DEF len, one, three
<1>4. ASSUME NEW i \in 1..14 PROVE Shape(p(i)) /\ v(i) \in Segments \ {"none"}
    <2>1. v(i) \in Words
        BY <1>3 DEF Words
    <2>2. Shape(p(i))
        <3>1. {"album", "allcategories", "alleditorgenres", "alleditormoods",
               "alleditorplaylists", "alleditorthemes", "allgenres", "alluseralbums",
               "alluserplaylists", "allusertracks", "category", "editorplaylist", "userplaylist"} \subseteq Words
            BY DEF Words
        <3>2. /\ Shape(p(1)) /\ Shape(p(2)) /\ Shape(p(3)) /\ Shape(p(4))
              /\ Shape(p(5)) /\ Shape(p(6)) /\ Shape(p(7)) /\ Shape(p(8))
              /\ Shape(p(9)) /\ Shape(p(10)) /\ Shape(p(11)) /\ Shape(p(12))
            BY <1>2, <3>1, ShapeOf, Zenon
        <3>3. /\ Shape(p(13)) /\ Shape(p(14))
            BY <1>2, <3>1, ShapeOf, Zenon
        <3>. QED BY <3>2, <3>3
    <2>. QED BY <2>1, <2>2, WordsAre DEF Segments
<1>5. ASSUME NEW i \in 1..14, NEW j \in 1..14, i # j
       PROVE  /\ v(i) # v(j)
              /\ \/ len(i) # len(j)
                 \/ len(i) > 0 /\ one(i) # one(j)
                 \/ len(i) = 3 /\ three(i) # "<>" /\ three(j) # "<>" /\ three(i) # three(j)
    <2>1. CASE i = 1 BY <1>3, <1>5, <2>1
    <2>2. CASE i = 2 BY <1>3, <1>5, <2>2
    <2>3. CASE i = 3 BY <1>3, <1>5, <2>3
    <2>4. CASE i = 4 BY <1>3, <1>5, <2>4
    <2>5. CASE i = 5 BY <1>3, <1>5, <2>5
    <2>6. CASE i = 6 BY <1>3, <1>5, <2>6
    <2>7. CASE i = 7 BY <1>3, <1>5, <2>7
    <2>8. CASE i = 8 BY <1>3, <1>5, <2>8
    <2>9. CASE i = 9 BY <1>3, <1>5, <2>9
    <2>10. CASE i = 10 BY <1>3, <1>5, <2>10
    <2>11. CASE i = 11 BY <1>3, <1>5, <2>11
    <2>12. CASE i = 12 BY <1>3, <1>5, <2>12
    <2>13. CASE i = 13 BY <1>3, <1>5, <2>13
    <2>14. CASE i = 14 BY <1>3, <1>5, <2>14
    <2>. QED BY <2>1, <2>2, <2>3, <2>4, <2>5, <2>6, <2>7, <2>8, <2>9, <2>10, <2>11, <2>12, <2>13, <2>14
<1>6. ASSUME NEW i \in 1..14, NEW j \in 1..14, i # j PROVE v(i) # v(j) /\ Apart(p(i), p(j))
    BY <1>6, <1>5, Zenon DEF Apart, Arg, len, one, three
<1>7. \A i, j \in 1..14 : i # j => v(i) # v(j) /\ Apart(p(i), p(j))
    BY <1>6, Zenon
<1>8. \A i \in 1..14 : Shape(p(i)) /\ v(i) \in Segments \ {"none"}
    BY <1>4, Zenon
<1>9. Len(HraRoutes) \in Nat
    BY <1>1
<1>. QED BY <1>1, <1>7, <1>8, <1>9, Zenon DEF Table, v, p

LEMMA DeezerTable == Table(DeezerRoutes)
<1> DEFINE v(i) == DeezerRoutes[i].view
           p(i) == DeezerRoutes[i].pattern
<1>1. Len(DeezerRoutes) = 14
    BY DEF DeezerRoutes
<1>2. /\ v(1) = "root" /\ p(1) = <<>>
      /\ v(2) = "my_family" /\ p(2) = <<"my_family">>
      /\ v(3) = "my_favourite_albums" /\ p(3) = <<"my_favourite_albums">>
      /\ v(4) = "my_favourite_playlists" /\ p(4) = <<"my_favourite_playlists">>
      /\ v(5) = "my_favourite_artists" /\ p(5) = <<"my_favourite_artists">>
      /\ v(6) = "my_favourite_tracks" /\ p(6) = <<"my_favourite_tracks">>
      /\ v(7) = "favourite_albums" /\ p(7) = <<"favourite_albums", Arg>>
      /\ v(8) = "favourite_playlists" /\ p(8) = <<"favourite_playlists", Arg>>
      /\ v(9) = "favourite_artists" /\ p(9) = <<"favourite_artists", Arg>>
      /\ v(10) = "favourite_tracks" /\ p(10) = <<"favourite_tracks", Arg>>
      /\ v(11) = "playlist_view" /\ p(11) = <<"userplaylist", Arg>>
      /\ v(12) = "user_view" /\ p(12) = <<"user", Arg>>
      /\ v(13) = "artist_view" /\ p(13) = <<"artist", Arg>>
      /\ v(14) = "album_view" /\ p(14) = <<"album", Arg>>
    BY DEF DeezerRoutes, Route
<1> HIDE DEF v, p
<1> DEFINE len(i) == Len(p(i))
           one(i) == p(i)[1]
           three(i) == p(i)[3]
<1>3. /\ v(1) = "root" /\ len(1) = 0
      /\ v(2) = "my_family" /\ len(2) = 1 /\ one(2) = "my_family"
      /\ v(3) = "my_favourite_albums" /\ len(3) = 1 /\ one(3) = "my_favourite_albums"
      /\ v(4) = "my_favourite_playlists" /\ len(4) = 1 /\ one(4) = "my_favourite_playlists"
      /\ v(5) = "my_favourite_artists" /\ len(5) = 1 /\ one(5) = "my_favourite_artists"
      /\ v(6) = "my_favourite_tracks" /\ len(6) = 1 /\ one(6) = "my_favourite_tracks"
      /\ v(7) = "favourite_albums" /\ len(7) = 2 /\ one(7) = "favourite_albums"
      /\ v(8) = "favourite_playlists" /\ len(8) = 2 /\ one(8) = "favourite_playlists"
      /\ v(9) = "favourite_artists" /\ len(9) = 2 /\ one(9) = "favourite_artists"
      /\ v(10) = "favourite_tracks" /\ len(10) = 2 /\ one(10) = "favourite_tracks"
      /\ v(11) = "playlist_view" /\ len(11) = 2 /\ one(11) = "userplaylist"
      /\ v(12) = "user_view" /\ len(12) = 2 /\ one(12) = "user"
      /\ v(13) = "artist_view" /\ len(13) = 2 /\ one(13) = "artist"
      /\ v(14) = "album_view" /\ len(14) = 2 /\ one(14) = "album"
    BY <1>2 DEF Arg
<1> HIDE DEF len, one, three
<1>4. ASSUME NEW i \in 1..14 PROVE Shape(p(i)) /\ v(i) \in Segments \ {"none"}
    <2>1. v(i) \in Words
        BY <1>3 DEF Words
    <2>2. Shape(p(i))
        <3>1. {"album", "artist", "favourite_albums", "favourite_artists", "favourite_playlists",
               "favourite_tracks", "my_family", "my_favourite_albums", "my_favourite_artists",
               "my_favourite_playlists", "my_favourite_tracks", "user", "userplaylist"} \subseteq Words
            BY DEF Words
        <3>2. /\ Shape(p(1)) /\ Shape(p(2)) /\ Shape(p(3)) /\ Shape(p(4))
              /\ Shape(p(5)) /\ Shape(p(6)) /\ Shape(p(7)) /\ Shape(p(8))
              /\ Shape(p(9)) /\ Shape(p(10)) /\ Shape(p(11)) /\ Shape(p(12))
            BY <1>2, <3>1, ShapeOf, Zenon
        <3>3. /\ Shape(p(13)) /\ Shape(p(14))
            BY <1>2, <3>1, ShapeOf, Zenon
        <3>. QED BY <3>2, <3>3
    <2>. QED BY <2>1, <2>2, WordsAre DEF Segments
<1>5. ASSUME NEW i \in 1..14, NEW j \in 1..14, i # j
       PROVE  /\ v(i) # v(j)
              /\ \/ len(i) # len(j)
                 \/ len(i) > 0 /\ one(i) # one(j)
                 \/ len(i) = 3 /\ three(i) # "<>" /\ three(j) # "<>" /\ three(i) # three(j)
    <2>1. CASE i = 1 BY <1>3, <1>5, <2>1
    <2>2. CASE i = 2 BY <1>3, <1>5, <2>2
    <2>3. CASE i = 3 BY <1>3, <1>5, <2>3
    <2>4. CASE i = 4 BY <1>3, <1>5, <2>4
    <2>5. CASE i = 5 BY <1>3, <1>5, <2>5
    <2>6. CASE i = 6 BY <1>3, <1>5, <2>6
    <2>7. CASE i = 7 BY <1>3, <1>5, <2>7
    <2>8. CASE i = 8 BY <1>3, <1>5, <2>8
    <2>9. CASE i = 9 BY <1>3, <1>5, <2>9
    <2>10. CASE i = 10 BY <1>3, <1>5, <2>10
    <2>11. CASE i = 11 BY <1>3, <1>5, <2>11
    <2>12. CASE i = 12 BY <1>3, <1>5, <2>12
    <2>13. CASE i = 13 BY <1>3, <1>5, <2>13
    <2>14. CASE i = 14 BY <1>3, <1>5, <2>14
    <2>. QED BY <2>1, <2>2, <2>3, <2>4, <2>5, <2>6, <2>7, <2>8, <2>9, <2>10, <2>11, <2>12, <2>13, <2>14
<1>6. ASSUME NEW i \in 1..14, NEW j \in 1..14, i # j PROVE v(i) # v(j) /\ Apart(p(i), p(j))
    BY <1>6, <1>5, Zenon DEF Apart, Arg, len, one, three
<1>7. \A i, j \in 1..14 : i # j => v(i) # v(j) /\ Apart(p(i), p(j))
    BY <1>6, Zenon
<1>8. \A i \in 1..14 : Shape(p(i)) /\ v(i) \in Segments \ {"none"}
    BY <1>4, Zenon
<1>9. Len(DeezerRoutes) \in Nat
    BY <1>1
<1>. QED BY <1>1, <1>7, <1>8, <1>9, Zenon DEF Table, v, p

LEMMA SpotifyTable == Table(SpotifyRoutes)
<1> DEFINE v(i) == SpotifyRoutes[i].view
           p(i) == SpotifyRoutes[i].pattern
<1>1. Len(SpotifyRoutes) = 14
    BY DEF SpotifyRoutes
<1>2. /\ v(1) = "root" /\ p(1) = <<>>
      /\ v(2) = "my_music" /\ p(2) = <<"my_music">>
      /\ v(3) = "album_view" /\ p(3) = <<"album", Arg>>
      /\ v(4) = "playlist_view" /\ p(4) = <<"playlist", Arg, Arg>>
      /\ v(5) = "category_view" /\ p(5) = <<"category", Arg>>
      /\ v(6) = "artist_view" /\ p(6) = <<"artist", Arg>>
      /\ v(7) = "new_releases" /\ p(7) = <<"new_releases">>
      /\ v(8) = "recently_played" /\ p(8) = <<"recently_played">>
      /\ v(9) = "favourite_tracks" /\ p(9) = <<"favourite_tracks">>
      /\ v(10) = "favourite_albums" /\ p(10) = <<"favourite_albums">>
      /\ v(11) = "featured_playlists" /\ p(11) = <<"featured_playlists">>
      /\ v(12) = "genres_and_moods" /\ p(12) = <<"genres_and_moods">>
      /\ v(13) = "my_playlists" /\ p(13) = <<"my_playlists">>
      /\ v(14) = "favourite_artists" /\ p(14) = <<"favourite_artists">>
    BY DEF SpotifyRoutes, Route
<1> HIDE DEF v, p
<1> DEFINE len(i) == Len(p(i))
           one(i) == p(i)[1]
           three(i) == p(i)[3]
<1>3. /\ v(1) = "root" /\ len(1) = 0
      /\ v(2) = "my_music" /\ len(2) = 1 /\ one(2) = "my_music"
      /\ v(3) = "album_view" /\ len(3) = 2 /\ one(3) = "album"
      /\ v(4) = "playlist_view" /\ len(4) = 3 /\ one(4) = "playlist" /\ three(4) = "<>"
      /\ v(5) = "category_view" /\ len(5) = 2 /\ one(5) = "category"
      /\ v(6) = "artist_view" /\ len(6) = 2 /\ one(6) = "artist"
      /\ v(7) = "new_releases" /\ len(7) = 1 /\ one(7) = "new_releases"
      /\ v(8) = "recently_played" /\ len(8) = 1 /\ one(8) = "recently_played"
      /\ v(9) = "favourite_tracks" /\ len(9) = 1 /\ one(9) = "favourite_tracks"
      /\ v(10) = "favourite_albums" /\ len(10) = 1 /\ one(10) = "favourite_albums"
      /\ v(11) = "featured_playlists" /\ len(11) = 1 /\ one(11) = "featured_playlists"
      /\ v(12) = "genres_and_moods" /\ len(12) = 1 /\ one(12) = "genres_and_moods"
      /\ v(13) = "my_playlists" /\ len(13) = 1 /\ one(13) = "my_playlists"
      /\ v(14) = "favourite_artists" /\ len(14) = 1 /\ one(14) = "favourite_artists"
    BY <1>2 DEF Arg
<1> HIDE DEF len, one, three
<1>4. ASSUME NEW i \in 1..14 PROVE Shape(p(i)) /\ v(i) \in Segments \ {"none"}
    <2>1. v(i) \in Words
        BY <1>3 DEF Words
    <2>2. Shape(p(i))
        <3>1. {"album", "artist", "category", "favourite_albums", "favourite_artists",
               "favourite_tracks", "featured_playlists", "genres_and_moods", "my_music",
               "my_playlists", "new_releases", "playlist", "recently_played"} \subseteq Words
            BY DEF Words
        <3>2. /\ Shape(p(1)) /\ Shape(p(2)) /\ Shape(p(3)) /\ Shape(p(4))
              /\ Shape(p(5)) /\ Shape(p(6)) /\ Shape(p(7)) /\ Shape(p(8))
              /\ Shape(p(9)) /\ Shape(p(10)) /\ Shape(p(11)) /\ Shape(p(12))
            BY <1>2, <3>1, ShapeOf, Zenon
        <3>3. /\ Shape(p(13)) /\ Shape(p(14))
            BY <1>2, <3>1, ShapeOf, Zenon
        <3>. QED BY <3>2, <3>3
    <2>. QED BY <2>1, <2>2, WordsAre DEF Segments
<1>5. ASSUME NEW i \in 1..14, NEW j \in 1..14, i # j
       PROVE  /\ v(i) # v(j)
              /\ \/ len(i) # len(j)
                 \/ len(i) > 0 /\ one(i) # one(j)
                 \/ len(i) = 3 /\ three(i) # "<>" /\ three(j) # "<>" /\ three(i) # three(j)
    <2>1. CASE i = 1 BY <1>3, <1>5, <2>1
    <2>2. CASE i = 2 BY <1>3, <1>5, <2>2
    <2>3. CASE i = 3 BY <1>3, <1>5, <2>3
    <2>4. CASE i = 4 BY <1>3, <1>5, <2>4
    <2>5. CASE i = 5 BY <1>3, <1>5, <2>5
    <2>6. CASE i = 6 BY <1>3, <1>5, <2>6
    <2>7. CASE i = 7 BY <1>3, <1>5, <2>7
    <2>8. CASE i = 8 BY <1>3, <1>5, <2>8
    <2>9. CASE i = 9 BY <1>3, <1>5, <2>9
    <2>10. CASE i = 10 BY <1>3, <1>5, <2>10
    <2>11. CASE i = 11 BY <1>3, <1>5, <2>11
    <2>12. CASE i = 12 BY <1>3, <1>5, <2>12
    <2>13. CASE i = 13 BY <1>3, <1>5, <2>13
    <2>14. CASE i = 14 BY <1>3, <1>5, <2>14
    <2>. QED BY <2>1, <2>2, <2>3, <2>4, <2>5, <2>6, <2>7, <2>8, <2>9, <2>10, <2>11, <2>12, <2>13, <2>14
<1>6. ASSUME NEW i \in 1..14, NEW j \in 1..14, i # j PROVE v(i) # v(j) /\ Apart(p(i), p(j))
    BY <1>6, <1>5, Zenon DEF Apart, Arg, len, one, three
<1>7. \A i, j \in 1..14 : i # j => v(i) # v(j) /\ Apart(p(i), p(j))
    BY <1>6, Zenon
<1>8. \A i \in 1..14 : Shape(p(i)) /\ v(i) \in Segments \ {"none"}
    BY <1>4, Zenon
<1>9. Len(SpotifyRoutes) \in Nat
    BY <1>1
<1>. QED BY <1>1, <1>7, <1>8, <1>9, Zenon DEF Table, v, p

-----------------------------------------------------------------------------
(* What the views of the services make *)

\* The rule of a view.
Rule(routes, view, pattern) == \E i \in 1..Len(routes) : routes[i] = Route(view, pattern)

LEMMA FitsIs ==
    /\ Fits(<<>>, <<>>) /\ \A w \in Words : <<w>> \in Id
    /\ \A a \in Words : Fits(<<a>>, <<>>)
    /\ \A a \in Words : \A x \in Id : Fits(<<a, Arg>>, <<x>>)
    /\ \A a \in Words : \A x, y \in Id : Fits(<<a, Arg, Arg>>, <<x, y>>)
    /\ \A a, b \in Words : \A x \in Id : Fits(<<a, Arg, b>>, <<x>>)
<1>1. ASSUME NEW a \in Words PROVE a \in Segments /\ IsWord(a)
    BY WordsAre DEF Segments
<1>2. ASSUME NEW a \in Words PROVE <<a>> \in Id
    <2>1. a \in Segments \ {""}
        BY <1>1, Zenon DEF IsWord
    <2>. QED BY <2>1, Zenon DEF Id
<1> HIDE DEF Words
<1>. QED BY <1>1, <1>2, Zenon DEF Fits

LEMMA FittedArgs ==
    ASSUME NEW a, NEW args
    PROVE  /\ Fits(<<a, Arg>>, args) => \E x \in Id : args = <<x>>
           /\ Fits(<<a, Arg, Arg>>, args) => \E x, y \in Id : args = <<x, y>>
           /\ \A b : b # Arg /\ Fits(<<a, Arg, b>>, args) => \E x \in Id : args = <<x>>
<1>1. ASSUME Fits(<<a, Arg>>, args) PROVE \E x \in Id : args = <<x>>
    BY <1>1 DEF Fits
<1>2. ASSUME Fits(<<a, Arg, Arg>>, args) PROVE \E x, y \in Id : args = <<x, y>>
    BY <1>2 DEF Fits, IsWord
<1>3. ASSUME NEW b, b # Arg, Fits(<<a, Arg, b>>, args) PROVE \E x \in Id : args = <<x>>
    BY <1>3 DEF Fits, IsWord
<1>. QED BY <1>1, <1>2, <1>3, Zenon

LEMMA RuleLeads ==
    ASSUME NEW routes, Table(routes), NEW view, NEW pattern, Rule(routes, view, pattern), NEW args,
           Fits(pattern, args)
    PROVE  add_directory(routes, view, args) \in Leading(routes)
<1>1. PICK i \in 1..Len(routes) : routes[i] = Route(view, pattern)
    BY DEF Rule
<1>2. routes[i].view = view /\ routes[i].pattern = pattern
    BY <1>1 DEF Route
<1>. QED BY <1>2, DirectoryLeads

LEMMA DirectoriesLead ==
    ASSUME NEW routes, NEW views, Len(views) \in Nat,
           \A k \in 1..Len(views) : add_directory(routes, views[k], <<>>) \in Leading(routes)
    PROVE  Directories(routes, views) \in Seq(Leading(routes))
<1> DEFINE e(k) == add_directory(routes, views[k], <<>>)
<1>1. \A k \in 1..Len(views) : e(k) \in Leading(routes)
    OBVIOUS
<1>2. Directories(routes, views) = [k \in 1..Len(views) |-> e(k)]
    BY DEF Directories
<1> HIDE DEF e
<1>. QED BY <1>1, <1>2, IsASeq

LEMMA ThingsLead ==
    ASSUME NEW routes, Table(routes), NEW view, NEW a \in Words, Rule(routes, view, <<a, Arg>>), NEW ids \in Seq(Ids)
    PROVE  View(routes, view, ids) \in Seq(Leading(routes))
<1>1. a \in Segments /\ IsWord(a)
    BY WordsAre DEF Segments
<1>. QED BY <1>1, ViewLeads DEF Rule

LEMMA IdsArePaths == Ids \subseteq Paths
<1>1. ASSUME NEW x \in Ids PROVE x \in Paths
    BY IdIs, Short, Zenon DEF Ids, Paths
<1>. QED BY <1>1

LEMMA StreamedLead ==
    ASSUME NEW routes, NEW tracks \in Seq(Ids)
    PROVE  trackentries(tracks) \in Seq(Leading(routes))
BY IdsArePaths, SeqMonotonic, TracksLead

LEMMA BeginningIs ==
    ASSUME NEW S, NEW list \in Seq(S), NEW n \in Int, n <= Len(list)
    PROVE  SubSeq(list, 1, n) \in Seq(S)
BY SubSeqProperties, ElementOfSeq, LenProperties

LEMMA PagesAre ==
    ASSUME NEW S, NEW list \in Seq(S), NEW max \in Nat, NEW slice \in Nat \ {0}, NEW answered \in Int
    PROVE  Pages(list, max, slice, answered) \in Seq(S)
<1> DEFINE whole == ((max + slice - 1) \div slice) * slice
           bound == IF max = 0 THEN answered * slice ELSE IF whole < answered * slice THEN whole ELSE answered * slice
           n == IF Len(list) < bound THEN Len(list) ELSE bound
<1>1. whole \in Int /\ answered * slice \in Int
    OBVIOUS
<1> HIDE DEF whole
<1>2. bound \in Int
    BY <1>1
<1> HIDE DEF bound
<1>3. n \in Int /\ n <= Len(list)
    BY <1>2, LenProperties
<1> HIDE DEF n
<1>4. Pages(list, max, slice, answered) = SubSeq(list, 1, n)
    BY Zenon DEF Pages, n, bound, whole
<1>. QED BY <1>3, <1>4, BeginningIs

LEMMA AvailableIs ==
    ASSUME NEW S, NEW list \in Seq(S)
    PROVE  Available(list) \in Seq(S)
<1> DEFINE places == {i \in 1..Len(list) : list[i] \notin Unavailable}
           T == {x \in S : \E i \in places : x = list[i]}
<1>1. AtPlaces(list, places) \in Seq(T) /\ T \subseteq S
    BY AtPlacesIs
<1> HIDE DEF T
<1>. QED BY <1>1, SeqMonotonic DEF Available

LEMMA IdIsOne ==
    ASSUME NEW x, IsId(x) PROVE x \in Ids
<1> DEFINE list == <<x>>
<1>1. list \in Seq(Seq(STRING)) /\ Len(list) = 1 /\ list[1] = x
    BY Short DEF IsId
<1> HIDE DEF list
<1>2. IsIdList(list)
    BY <1>1 DEF IsIdList
<1>3. list \in Seq(Ids)
    BY <1>2, IdListIs
<1>4. 1 \in 1..Len(list)
    BY <1>1
<1>5. list[1] \in Ids
    BY <1>3, <1>4, ElementOfSeq
<1>. QED BY <1>1, <1>5

\* A view is called with what its only rule finds.
LEMMA CalledWithOne ==
    ASSUME NEW routes, Table(routes), NEW view, NEW a, Rule(routes, view, <<a, Arg>>),
           NEW i \in 1..Len(routes), routes[i].view = view, NEW args, Fits(routes[i].pattern, args)
    PROVE  \E x \in Id : args = <<x>>
<1>1. PICK k \in 1..Len(routes) : routes[k] = Route(view, <<a, Arg>>)
    BY DEF Rule
<1>2. routes[k].view = view /\ routes[k].pattern = <<a, Arg>>
    BY <1>1 DEF Route
<1>3. i = k
    BY <1>2 DEF Table
<1>4. Fits(<<a, Arg>>, args)
    BY <1>2, <1>3
<1>. QED BY <1>4, FittedArgs, Zenon

-----------------------------------------------------------------------------
(* What Qobuz lists and finds *)

LEMMA QobuzIs ==
    /\ Len(QobuzRoutes) = 16
    /\ QobuzRoutes[1] = Route("root", <<>>)
    /\ QobuzRoutes[2] = Route("root_genres", <<"root_genres">>)
    /\ QobuzRoutes[3] = Route("genre_view", <<"genre", Arg>>)
    /\ QobuzRoutes[4] = Route("genre_view_type", <<"featured", Arg, Arg>>)
    /\ QobuzRoutes[5] = Route("genre_view_playlists", <<"featured_playlists", Arg>>)
    /\ QobuzRoutes[6] = Route("whats_new", <<"whats_new">>)
    /\ QobuzRoutes[7] = Route("featured", <<"featured", Arg>>)
    /\ QobuzRoutes[8] = Route("my_music", <<"my_music">>)
    /\ QobuzRoutes[9] = Route("album_view", <<"album", Arg>>)
    /\ QobuzRoutes[10] = Route("playlist_view", <<"playlist", Arg>>)
    /\ QobuzRoutes[11] = Route("artist_view", <<"artist", Arg>>)
    /\ QobuzRoutes[12] = Route("similar_artists", <<"artist", Arg, "similar">>)
    /\ QobuzRoutes[13] = Route("favourite_tracks", <<"favourite_tracks">>)
    /\ QobuzRoutes[14] = Route("favourite_artists", <<"favourite_artists">>)
    /\ QobuzRoutes[15] = Route("favourite_albums", <<"favourite_albums">>)
    /\ QobuzRoutes[16] = Route("favourite_playlists", <<"favourite_playlists">>)
BY DEF QobuzRoutes, Route

LEMMA QobuzRules ==
    /\ Rule(QobuzRoutes, "root", <<>>)
    /\ Rule(QobuzRoutes, "root_genres", <<"root_genres">>)
    /\ Rule(QobuzRoutes, "genre_view", <<"genre", Arg>>)
    /\ Rule(QobuzRoutes, "genre_view_type", <<"featured", Arg, Arg>>)
    /\ Rule(QobuzRoutes, "genre_view_playlists", <<"featured_playlists", Arg>>)
    /\ Rule(QobuzRoutes, "whats_new", <<"whats_new">>)
    /\ Rule(QobuzRoutes, "featured", <<"featured", Arg>>)
    /\ Rule(QobuzRoutes, "my_music", <<"my_music">>)
    /\ Rule(QobuzRoutes, "album_view", <<"album", Arg>>)
    /\ Rule(QobuzRoutes, "playlist_view", <<"playlist", Arg>>)
    /\ Rule(QobuzRoutes, "artist_view", <<"artist", Arg>>)
    /\ Rule(QobuzRoutes, "similar_artists", <<"artist", Arg, "similar">>)
    /\ Rule(QobuzRoutes, "favourite_tracks", <<"favourite_tracks">>)
    /\ Rule(QobuzRoutes, "favourite_artists", <<"favourite_artists">>)
    /\ Rule(QobuzRoutes, "favourite_albums", <<"favourite_albums">>)
    /\ Rule(QobuzRoutes, "favourite_playlists", <<"favourite_playlists">>)
BY QobuzIs DEF Rule

LEMMA QobuzLists ==
    /\ \A list \in Seq(Ids) :
         /\ QView("genre_view", list) \in Seq(Leading(QobuzRoutes))
         /\ QView("album_view", list) \in Seq(Leading(QobuzRoutes))
         /\ QView("playlist_view", list) \in Seq(Leading(QobuzRoutes))
         /\ QView("artist_view", list) \in Seq(Leading(QobuzRoutes))
    /\ \A kind \in {"artist", "album", "genrealbum", "playlist", "track", "genre"} : QobuzLib[kind] \in Seq(Ids)
<1>1. {"genre", "album", "playlist", "artist"} \subseteq Words
    BY DEF Words
<1>2. ASSUME NEW list \in Seq(Ids)
      PROVE  /\ QView("genre_view", list) \in Seq(Leading(QobuzRoutes))
             /\ QView("album_view", list) \in Seq(Leading(QobuzRoutes))
             /\ QView("playlist_view", list) \in Seq(Leading(QobuzRoutes))
             /\ QView("artist_view", list) \in Seq(Leading(QobuzRoutes))
    BY <1>1, QobuzTable, QobuzRules, ThingsLead, Zenon DEF QView
<1>3. \A kind \in {"artist", "album", "genrealbum", "playlist", "track", "genre"} : QobuzLib[kind] \in Seq(Ids)
    BY QobuzAssumption, IdListIs
<1>. QED BY <1>2, <1>3

LEMMA QobuzBrowseLeads ==
    ASSUME NEW i \in 1..Len(QobuzRoutes), NEW view, view = QobuzRoutes[i].view,
           NEW args, Fits(QobuzRoutes[i].pattern, args), NEW net \in Nat
    PROVE  QobuzBrowse(view, args, net) \in Seq(Leading(QobuzRoutes))
<1> DEFINE L == Leading(QobuzRoutes)
<1> HIDE DEF L
<1>1. view \in {"root", "root_genres", "genre_view", "genre_view_type", "genre_view_playlists",
                "whats_new", "featured", "my_music", "album_view", "playlist_view", "artist_view",
                "similar_artists", "favourite_tracks", "favourite_artists", "favourite_albums",
                "favourite_playlists"}
    BY QobuzIs DEF Route
<1>2. /\ QobuzLib.artist \in Seq(Ids) /\ QobuzLib.album \in Seq(Ids) /\ QobuzLib.genrealbum \in Seq(Ids)
      /\ QobuzLib.playlist \in Seq(Ids) /\ QobuzLib.track \in Seq(Ids) /\ QobuzLib.genre \in Seq(Ids)
    BY QobuzLists
<1>3. \A list \in Seq(Ids) : /\ QView("genre_view", list) \in Seq(L) /\ QView("album_view", list) \in Seq(L)
                             /\ QView("playlist_view", list) \in Seq(L) /\ QView("artist_view", list) \in Seq(L)
    BY QobuzLists DEF L
<1>4. \A list \in Seq(Ids) : /\ trackentries(list) \in Seq(L) /\ Available(list) \in Seq(Ids)
                             /\ \A max \in Nat : Pages(list, max, QSlice, net) \in Seq(Ids)
    <2>1. QSlice \in Nat \ {0} /\ net \in Int
        BY QobuzAssumption
    <2>. QED BY <2>1, StreamedLead, AvailableIs, PagesAre, Zenon DEF L
<1>5. \A genre : get_featured_albums(genre, net) \in Seq(Ids) /\ get_featured_playlists(genre, net) \in Seq(Ids)
    <2>0. 1 \in Nat /\ 1 \in Nat \ {0} /\ 1 \in Int /\ <<>> \in Seq(Ids)
        OBVIOUS
    <2>1. Pages(QobuzLib.playlist, 1, 1, 1) \in Seq(Ids) /\ <<>> \in Seq(Ids)
        BY <1>2, <2>0, PagesAre, Zenon
    <2>2. \A genre : get_featured_albums(genre, net) \in Seq(Ids)
        BY <1>2, <1>4, <2>1 DEF get_featured_albums
    <2>3. \A genre : get_featured_playlists(genre, net) \in Seq(Ids)
        BY <1>2, <2>1 DEF get_featured_playlists
    <2>. QED BY <2>2, <2>3
<1>6. get_genres \in Seq(Ids)
    BY <1>2, QobuzAssumption, IdIsOne, Short, ConcatProperties DEF get_genres
<1>7. /\ QDir("whats_new", <<>>) \in L /\ QDir("root_genres", <<>>) \in L /\ QDir("my_music", <<>>) \in L
      /\ QDir("favourite_albums", <<>>) \in L /\ QDir("favourite_tracks", <<>>) \in L
      /\ QDir("favourite_artists", <<>>) \in L /\ QDir("favourite_playlists", <<>>) \in L
    <2>1. {"whats_new", "root_genres", "my_music", "favourite_albums", "favourite_tracks", "favourite_artists",
           "favourite_playlists"} \subseteq Words
        BY DEF Words
    <2>2. \A w \in Words : Fits(<<w>>, <<>>)
        BY FitsIs
    <2>. QED BY <2>1, <2>2, QobuzTable, QobuzRules, RuleLeads, Zenon DEF L, QDir
<1>8. CASE view = "root"
    <2> DEFINE views == <<"whats_new", "root_genres", "my_music">>
    <2>1. QobuzBrowse(view, args, net) = Directories(QobuzRoutes, views)
        BY <1>8 DEF QobuzBrowse
    <2>2. Len(views) \in Nat /\ \A k \in 1..Len(views) : add_directory(QobuzRoutes, views[k], <<>>) \in L
        BY <1>7 DEF QDir
    <2> HIDE DEF views
    <2>. QED BY <2>1, <2>2, DirectoriesLead DEF L
<1>9. CASE view = "my_music"
    <2> DEFINE views == <<"favourite_albums", "favourite_tracks", "favourite_artists", "favourite_playlists">>
    <2>1. QobuzBrowse(view, args, net) = Directories(QobuzRoutes, views)
        BY <1>9 DEF QobuzBrowse
    <2>2. Len(views) \in Nat /\ \A k \in 1..Len(views) : add_directory(QobuzRoutes, views[k], <<>>) \in L
        BY <1>7 DEF QDir
    <2> HIDE DEF views
    <2>. QED BY <2>1, <2>2, DirectoriesLead DEF L
<1>10. CASE view = "whats_new"
    <2> DEFINE types == <<"playlists", "albums", "artists">>
               e(k) == QDir("featured", <<<<types[k]>>>>)
    <2>1. QobuzBrowse(view, args, net) = [k \in 1..3 |-> e(k)]
        BY <1>10 DEF QobuzBrowse
    <2>2. \A k \in 1..3 : types[k] \in Words
        BY DEF Words
    <2>3. "featured" \in Words
        BY DEF Words
    <2>4. ASSUME NEW k \in 1..3 PROVE e(k) \in L
        <3>1. <<types[k]>> \in Id
            BY <2>2, FitsIs
        <3>2. Fits(<<"featured", Arg>>, <<<<types[k]>>>>)
            BY <2>3, <3>1, FitsIs, Zenon
        <3>. QED BY <3>2, QobuzTable, QobuzRules, RuleLeads, Zenon DEF L, QDir
    <2> HIDE DEF e
    <2>. QED BY <2>1, <2>4, IsASeq DEF L
<1>11. CASE view = "genre_view"
    <2>1. PICK x \in Id : args = <<x>>
        <3>1. QobuzRoutes[i].view = "genre_view" /\ Rule(QobuzRoutes, "genre_view", <<"genre", Arg>>)
            BY <1>11, QobuzRules
        <3>. QED BY <3>1, QobuzTable, CalledWithOne
    <2> DEFINE Type(t) == QDir("genre_view_type", <<x, <<t>>>>)
               types == <<Type("new-releases"), QDir("genre_view_playlists", <<x>>), Type("most-streamed"),
                          Type("best-sellers"), Type("editor-picks"), Type("press-awards")>>
    <2>2. QobuzBrowse(view, args, net) = types \o QView("album_view", get_featured_albums(x, net))
        BY <1>11, <2>1 DEF QobuzBrowse, genre_view
    <2>3. {"new-releases", "most-streamed", "best-sellers", "editor-picks", "press-awards",
           "featured", "featured_playlists"} \subseteq Words
        BY DEF Words
    <2>4. ASSUME NEW t \in Words PROVE Type(t) \in L
        <3>1. Fits(<<"featured", Arg, Arg>>, <<x, <<t>>>>)
            BY <2>3, FitsIs, Zenon
        <3>. QED BY <3>1, QobuzTable, QobuzRules, RuleLeads, Zenon DEF L, QDir
    <2>5. QDir("genre_view_playlists", <<x>>) \in L
        <3>1. Fits(<<"featured_playlists", Arg>>, <<x>>)
            BY <2>3, FitsIs, Zenon
        <3>. QED BY <3>1, QobuzTable, QobuzRules, RuleLeads, Zenon DEF L, QDir
    <2> HIDE DEF Type
    <2>6. types \in Seq(L)
        BY <2>3, <2>4, <2>5
    <2> HIDE DEF types
    <2>. QED BY <1>3, <1>5, <2>2, <2>6, ConcatProperties DEF L
<1>12. CASE view = "artist_view"
    <2>1. PICK x \in Id : args = <<x>>
        <3>1. QobuzRoutes[i].view = "artist_view" /\ Rule(QobuzRoutes, "artist_view", <<"artist", Arg>>)
            BY <1>12, QobuzRules
        <3>. QED BY <3>1, QobuzTable, CalledWithOne
    <2>2. QobuzBrowse(view, args, net) =
            <<QDir("similar_artists", args)>> \o QView("album_view", Available(QobuzLib.album))
        BY <1>12 DEF QobuzBrowse
    <2>3. "artist" \in Words /\ "similar" \in Words
        BY DEF Words
    <2>4. Fits(<<"artist", Arg, "similar">>, args)
        BY <2>1, <2>3, FitsIs, Zenon
    <2>5. QDir("similar_artists", args) \in L
        BY <2>4, QobuzTable, QobuzRules, RuleLeads, Zenon DEF L, QDir
    <2>6. <<QDir("similar_artists", args)>> \in Seq(L)
        BY <2>5, Short
    <2>7. QView("album_view", Available(QobuzLib.album)) \in Seq(L)
        BY <1>2, <1>3, <1>4, Zenon
    <2>. QED BY <2>2, <2>6, <2>7, ConcatProperties DEF L
<1>13. CASE view = "featured"
    <2>1. QobuzBrowse(view, args, net) = get_featured_items(args[1])
        BY <1>13 DEF QobuzBrowse
    <2>. QED BY <1>2, <1>3, <2>1, Short DEF get_featured_items, L
<1>14. CASE view \in {"root_genres", "genre_view_type", "genre_view_playlists"}
    BY <1>3, <1>5, <1>6, <1>14 DEF QobuzBrowse, L
<1>15. CASE view \in {"album_view", "playlist_view", "favourite_tracks"}
    <2>1. ASSUME NEW max \in Nat
          PROVE  /\ trackentries(Pages(QobuzLib.track, max, QSlice, net)) \in Seq(L)
                 /\ trackentries(Available(Pages(QobuzLib.track, max, QSlice, net))) \in Seq(L)
        BY <1>2, <1>4, Zenon
    <2>2. CASE view = "album_view"
        BY <1>2, <1>4, <2>2 DEF QobuzBrowse, L
    <2>3. CASE view = "playlist_view"
        <3>1. QobuzBrowse(view, args, net) = trackentries(Pages(QobuzLib.track, 1000, QSlice, net))
            BY <2>3 DEF QobuzBrowse
        <3>. QED BY <2>1, <3>1 DEF L
    <2>4. CASE view = "favourite_tracks"
        <3>1. QobuzBrowse(view, args, net) = trackentries(Available(Pages(QobuzLib.track, 0, QSlice, net)))
            BY <2>4 DEF QobuzBrowse
        <3>. QED BY <2>1, <3>1 DEF L
    <2>. QED BY <1>15, <2>2, <2>3, <2>4
<1>17. CASE view = "similar_artists"
    BY <1>2, <1>3, <1>17 DEF QobuzBrowse, L
<1>16. CASE view \in {"favourite_artists", "favourite_albums", "favourite_playlists"}
    BY <1>2, <1>3, <1>4, <1>16 DEF QobuzBrowse, L
<1>. QED BY <1>1, <1>8, <1>9, <1>10, <1>11, <1>12, <1>13, <1>14, <1>15, <1>16, <1>17

LEMMA QobuzSearchLeads ==
    ASSUME NEW kind, NEW net \in Nat
    PROVE  QobuzSearch(kind, net) \in Seq(Leading(QobuzRoutes))
<1> DEFINE L == Leading(QobuzRoutes)
<1>1. \A c \in {"artist", "album", "playlist", "track"} : \A nth : QobuzFound(c, nth, net) \in Seq(Ids)
    BY QobuzLists, AvailableIs, Short DEF QobuzFound
<1>2. \A list \in Seq(Ids) : /\ QView("album_view", list) \in Seq(L) /\ QView("playlist_view", list) \in Seq(L)
                             /\ QView("artist_view", list) \in Seq(L) /\ trackentries(list) \in Seq(L)
    BY QobuzLists, StreamedLead
<1> HIDE DEF L
<1>3. \A s, t \in Seq(L) : s \o t \in Seq(L)
    BY ConcatProperties
<1> DEFINE k == IF kind \in {"any", "artist", "album", "playlist", "track"} THEN kind ELSE "track"
           Nth(c) == IF k = "any" THEN CASE c = "artist" -> 1 [] c = "album" -> 2
                                         [] c = "track" -> 3 [] OTHER -> 4
                     ELSE IF k = "album" /\ c = "playlist" THEN 2 ELSE 1
           Found(c) == QobuzFound(c, Nth(c), net)
           Show(c, entries) == IF k \in {"any", c} \/ (k = "album" /\ c = "playlist") THEN entries ELSE <<>>
<1>4. \A c : \A s \in Seq(L) : Show(c, s) \in Seq(L)
    BY Short
<1> HIDE DEF k, Nth, Show
<1>5. /\ QView("artist_view", Found("artist")) \in Seq(L) /\ QView("album_view", Found("album")) \in Seq(L)
      /\ QView("playlist_view", Found("playlist")) \in Seq(L) /\ trackentries(Found("track")) \in Seq(L)
    BY <1>1, <1>2
<1> HIDE DEF Found
<1>6. QobuzSearch(kind, net) =
        Show("artist", QView("artist_view", Found("artist"))) \o Show("album", QView("album_view", Found("album")))
        \o Show("playlist", QView("playlist_view", Found("playlist"))) \o Show("track", trackentries(Found("track")))
    BY Zenon DEF QobuzSearch, k, Nth, Found, Show
<1>7. QobuzSearch(kind, net) \in Seq(L)
    BY <1>3, <1>4, <1>5, <1>6
<1>. QED BY <1>7 DEF L

-----------------------------------------------------------------------------
(* What Tidal lists and finds *)

LEMMA TidalIs ==
    /\ Len(TidalRoutes) = 24
    /\ TidalRoutes[1] = Route("root", <<>>)
    /\ TidalRoutes[2] = Route("track_radio", <<"track_radio", Arg>>)
    /\ TidalRoutes[3] = Route("moods", <<"moods">>)
    /\ TidalRoutes[4] = Route("moods_playlists", <<"moods", Arg>>)
    /\ TidalRoutes[5] = Route("genres", <<"genres">>)
    /\ TidalRoutes[6] = Route("genre_view", <<"genre", Arg>>)
    /\ TidalRoutes[7] = Route("genre_playlists", <<"genre", Arg, "playlists">>)
    /\ TidalRoutes[8] = Route("genre_albums", <<"genre", Arg, "albums">>)
    /\ TidalRoutes[9] = Route("genre_tracks", <<"genre", Arg, "tracks">>)
    /\ TidalRoutes[10] = Route("featured_playlists", <<"featured_playlists">>)
    /\ TidalRoutes[11] = Route("whats_new", <<"whats_new">>)
    /\ TidalRoutes[12] = Route("featured", <<"featured", Arg, Arg>>)
    /\ TidalRoutes[13] = Route("my_music", <<"my_music">>)
    /\ TidalRoutes[14] = Route("album_view", <<"album", Arg>>)
    /\ TidalRoutes[15] = Route("artist_view", <<"artist", Arg>>)
    /\ TidalRoutes[16] = Route("artist_radio", <<"artist", Arg, "radio">>)
    /\ TidalRoutes[17] = Route("top_tracks", <<"artist", Arg, "top">>)
    /\ TidalRoutes[18] = Route("similar_artists", <<"artist", Arg, "similar">>)
    /\ TidalRoutes[19] = Route("playlist_view", <<"playlist", Arg>>)
    /\ TidalRoutes[20] = Route("my_playlists", <<"user_playlists">>)
    /\ TidalRoutes[21] = Route("favourite_playlists", <<"favourite_playlists">>)
    /\ TidalRoutes[22] = Route("favourite_artists", <<"favourite_artists">>)
    /\ TidalRoutes[23] = Route("favourite_albums", <<"favourite_albums">>)
    /\ TidalRoutes[24] = Route("favourite_tracks", <<"favourite_tracks">>)
BY DEF TidalRoutes, Route

LEMMA TidalRules ==
    /\ Rule(TidalRoutes, "root", <<>>)
    /\ Rule(TidalRoutes, "track_radio", <<"track_radio", Arg>>)
    /\ Rule(TidalRoutes, "moods", <<"moods">>)
    /\ Rule(TidalRoutes, "moods_playlists", <<"moods", Arg>>)
    /\ Rule(TidalRoutes, "genres", <<"genres">>)
    /\ Rule(TidalRoutes, "genre_view", <<"genre", Arg>>)
    /\ Rule(TidalRoutes, "genre_playlists", <<"genre", Arg, "playlists">>)
    /\ Rule(TidalRoutes, "genre_albums", <<"genre", Arg, "albums">>)
    /\ Rule(TidalRoutes, "genre_tracks", <<"genre", Arg, "tracks">>)
    /\ Rule(TidalRoutes, "featured_playlists", <<"featured_playlists">>)
    /\ Rule(TidalRoutes, "whats_new", <<"whats_new">>)
    /\ Rule(TidalRoutes, "featured", <<"featured", Arg, Arg>>)
    /\ Rule(TidalRoutes, "my_music", <<"my_music">>)
    /\ Rule(TidalRoutes, "album_view", <<"album", Arg>>)
    /\ Rule(TidalRoutes, "artist_view", <<"artist", Arg>>)
    /\ Rule(TidalRoutes, "artist_radio", <<"artist", Arg, "radio">>)
    /\ Rule(TidalRoutes, "top_tracks", <<"artist", Arg, "top">>)
    /\ Rule(TidalRoutes, "similar_artists", <<"artist", Arg, "similar">>)
    /\ Rule(TidalRoutes, "playlist_view", <<"playlist", Arg>>)
    /\ Rule(TidalRoutes, "my_playlists", <<"user_playlists">>)
    /\ Rule(TidalRoutes, "favourite_playlists", <<"favourite_playlists">>)
    /\ Rule(TidalRoutes, "favourite_artists", <<"favourite_artists">>)
    /\ Rule(TidalRoutes, "favourite_albums", <<"favourite_albums">>)
    /\ Rule(TidalRoutes, "favourite_tracks", <<"favourite_tracks">>)
BY TidalIs DEF Rule

LEMMA TidalBrowseLeads ==
    ASSUME NEW i \in 1..Len(TidalRoutes), NEW view, view = TidalRoutes[i].view,
           NEW args, Fits(TidalRoutes[i].pattern, args), NEW country
    PROVE  TidalBrowse(view, args, country) \in Seq(Leading(TidalRoutes))
<1> DEFINE L == Leading(TidalRoutes)
<1> HIDE DEF L
<1>1. trackentries(TidalLib.track) \in Seq(L) /\ <<>> \in Seq(L)
    BY TidalAssumption, IdListIs, StreamedLead, Short DEF L
<1>2. CASE view = "genre_view"
    <2>1. PICK x \in Id : args = <<x>>
        <3>1. TidalRoutes[i].view = "genre_view" /\ Rule(TidalRoutes, "genre_view", <<"genre", Arg>>)
            BY <1>2, TidalRules
        <3>. QED BY <3>1, TidalTable, CalledWithOne
    <2> DEFINE views == <<"genre_playlists", "genre_albums", "genre_tracks">>
               e(k) == TDir(views[k], args)
    <2>2. TidalBrowse(view, args, country) = [k \in 1..3 |-> e(k)]
        BY <1>2 DEF TidalBrowse
    <2>3. {"genre", "playlists", "albums", "tracks"} \subseteq Words
        BY DEF Words
    <2>4. /\ Fits(<<"genre", Arg, "playlists">>, args) /\ Fits(<<"genre", Arg, "albums">>, args)
          /\ Fits(<<"genre", Arg, "tracks">>, args)
        BY <2>1, <2>3, FitsIs, Zenon
    <2>5. TDir("genre_playlists", args) \in L /\ TDir("genre_albums", args) \in L /\ TDir("genre_tracks", args) \in L
        BY <2>4, TidalTable, TidalRules, RuleLeads, Zenon DEF L, TDir
    <2>6. \A k \in 1..3 : e(k) \in L
        BY <2>5
    <2> HIDE DEF e
    <2>. QED BY <2>2, <2>6, IsASeq DEF L
<1>3. CASE view = "artist_view"
    <2>1. PICK x \in Id : args = <<x>>
        <3>1. TidalRoutes[i].view = "artist_view" /\ Rule(TidalRoutes, "artist_view", <<"artist", Arg>>)
            BY <1>3, TidalRules
        <3>. QED BY <3>1, TidalTable, CalledWithOne
    <2> DEFINE views == <<"top_tracks", "artist_radio", "similar_artists">>
               e(k) == TDir(views[k], args)
    <2>2. TidalBrowse(view, args, country) = [k \in 1..3 |-> e(k)]
        BY <1>3 DEF TidalBrowse
    <2>3. {"artist", "top", "radio", "similar"} \subseteq Words
        BY DEF Words
    <2>4. /\ Fits(<<"artist", Arg, "top">>, args) /\ Fits(<<"artist", Arg, "radio">>, args)
          /\ Fits(<<"artist", Arg, "similar">>, args)
        BY <2>1, <2>3, FitsIs, Zenon
    <2>5. TDir("top_tracks", args) \in L /\ TDir("artist_radio", args) \in L /\ TDir("similar_artists", args) \in L
        BY <2>4, TidalTable, TidalRules, RuleLeads, Zenon DEF L, TDir
    <2>6. \A k \in 1..3 : e(k) \in L
        BY <2>5
    <2> HIDE DEF e
    <2>. QED BY <2>2, <2>6, IsASeq DEF L
<1>4. CASE view = "whats_new"
    <2> DEFINE Group(g, types) == [k \in 1..Len(types) |-> TDir("featured", <<<<g>>, <<types[k]>>>>)]
               all == <<"playlists", "albums", "tracks">>
               some == <<"albums", "tracks">>
    <2>1. {"recommended", "new", "top", "local", "featured", "playlists", "albums", "tracks"} \subseteq Words
        BY DEF Words
    <2>2. ASSUME NEW g \in Words, NEW types, Len(types) \in Nat, \A k \in 1..Len(types) : types[k] \in Words
          PROVE  Group(g, types) \in Seq(L)
        <3> DEFINE e(k) == TDir("featured", <<<<g>>, <<types[k]>>>>)
        <3>1. ASSUME NEW k \in 1..Len(types) PROVE e(k) \in L
            <4>1. <<g>> \in Id /\ <<types[k]>> \in Id
                BY <2>2, FitsIs, Zenon
            <4>2. Fits(<<"featured", Arg, Arg>>, <<<<g>>, <<types[k]>>>>)
                BY <2>1, <4>1, FitsIs, Zenon
            <4>. QED BY <4>2, TidalTable, TidalRules, RuleLeads, Zenon DEF L, TDir
        <3>2. Group(g, types) = [k \in 1..Len(types) |-> e(k)]
            OBVIOUS
        <3> HIDE DEF e, Group
        <3>. QED BY <2>2, <3>1, <3>2, IsASeq
    <2>3. /\ Len(all) \in Nat /\ \A k \in 1..Len(all) : all[k] \in Words
          /\ Len(some) \in Nat /\ \A k \in 1..Len(some) : some[k] \in Words
        BY <2>1
    <2>4. TidalBrowse(view, args, country) =
            Group("recommended", all) \o Group("new", all) \o Group("top", some)
            \o (IF country = "US" THEN <<>> ELSE Group("local", all))
        BY <1>4 DEF TidalBrowse, WhatsNew
    <2> HIDE DEF Group, all, some
    <2>5. /\ Group("recommended", all) \in Seq(L) /\ Group("new", all) \in Seq(L)
          /\ Group("top", some) \in Seq(L) /\ Group("local", all) \in Seq(L)
        BY <2>1, <2>2, <2>3, Zenon
    <2>6. \A s, u \in Seq(L) : s \o u \in Seq(L)
        BY ConcatProperties
    <2>. QED BY <1>1, <2>4, <2>5, <2>6 DEF L
<1>5. CASE view \notin {"genre_view", "artist_view", "whats_new"}
    BY <1>1, <1>5 DEF TidalBrowse, L
<1>. QED BY <1>2, <1>3, <1>4, <1>5

LEMMA TidalSearchLeads ==
    ASSUME NEW kind
    PROVE  TidalSearch(kind) \in Seq(Leading(TidalRoutes))
BY TidalAssumption, IdListIs, StreamedLead, Short DEF TidalSearch

-----------------------------------------------------------------------------
(* What Hra lists and finds *)

LEMMA HraIs ==
    /\ Len(HraRoutes) = 14
    /\ HraRoutes[1] = Route("root", <<>>)
    /\ HraRoutes[2] = Route("allCategories", <<"allcategories">>)
    /\ HraRoutes[3] = Route("allGenres", <<"allgenres">>)
    /\ HraRoutes[4] = Route("category_view", <<"category", Arg>>)
    /\ HraRoutes[5] = Route("allEditorGenres", <<"alleditorgenres">>)
    /\ HraRoutes[6] = Route("allEditorMoods", <<"alleditormoods">>)
    /\ HraRoutes[7] = Route("allEditorThemes", <<"alleditorthemes">>)
    /\ HraRoutes[8] = Route("allEditorPlaylists", <<"alleditorplaylists">>)
    /\ HraRoutes[9] = Route("edplaylist_view", <<"editorplaylist", Arg>>)
    /\ HraRoutes[10] = Route("allUserPlaylists", <<"alluserplaylists">>)
    /\ HraRoutes[11] = Route("allUserAlbums", <<"alluseralbums">>)
    /\ HraRoutes[12] = Route("allUserTracks", <<"allusertracks">>)
    /\ HraRoutes[13] = Route("userplaylist_view", <<"userplaylist", Arg>>)
    /\ HraRoutes[14] = Route("album_view", <<"album", Arg>>)
BY DEF HraRoutes, Route

LEMMA HraRules ==
    /\ Rule(HraRoutes, "root", <<>>)
    /\ Rule(HraRoutes, "allCategories", <<"allcategories">>)
    /\ Rule(HraRoutes, "allGenres", <<"allgenres">>)
    /\ Rule(HraRoutes, "category_view", <<"category", Arg>>)
    /\ Rule(HraRoutes, "allEditorGenres", <<"alleditorgenres">>)
    /\ Rule(HraRoutes, "allEditorMoods", <<"alleditormoods">>)
    /\ Rule(HraRoutes, "allEditorThemes", <<"alleditorthemes">>)
    /\ Rule(HraRoutes, "allEditorPlaylists", <<"alleditorplaylists">>)
    /\ Rule(HraRoutes, "edplaylist_view", <<"editorplaylist", Arg>>)
    /\ Rule(HraRoutes, "allUserPlaylists", <<"alluserplaylists">>)
    /\ Rule(HraRoutes, "allUserAlbums", <<"alluseralbums">>)
    /\ Rule(HraRoutes, "allUserTracks", <<"allusertracks">>)
    /\ Rule(HraRoutes, "userplaylist_view", <<"userplaylist", Arg>>)
    /\ Rule(HraRoutes, "album_view", <<"album", Arg>>)
BY HraIs DEF Rule

LEMMA HraLists ==
    /\ \A list \in Seq(Ids) :
         /\ HView("category_view", list) \in Seq(Leading(HraRoutes))
         /\ HView("edplaylist_view", list) \in Seq(Leading(HraRoutes))
         /\ HView("userplaylist_view", list) \in Seq(Leading(HraRoutes))
         /\ HView("album_view", list) \in Seq(Leading(HraRoutes))
         /\ trackentries(list) \in Seq(Leading(HraRoutes))
    /\ \A kind \in {"album", "playlist", "edplaylist", "track"} : HraLib[kind] \in Seq(Ids)
    /\ \A kind \in {"category", "genre"} : Encoded(HraLib[kind]) \in Seq(Ids)
<1>1. {"category", "editorplaylist", "userplaylist", "album"} \subseteq Words
    BY DEF Words
<1>2. ASSUME NEW list \in Seq(Ids)
      PROVE  /\ HView("category_view", list) \in Seq(Leading(HraRoutes))
             /\ HView("edplaylist_view", list) \in Seq(Leading(HraRoutes))
             /\ HView("userplaylist_view", list) \in Seq(Leading(HraRoutes))
             /\ HView("album_view", list) \in Seq(Leading(HraRoutes))
             /\ trackentries(list) \in Seq(Leading(HraRoutes))
    BY <1>1, HraTable, HraRules, ThingsLead, StreamedLead, Zenon DEF HView
<1>3. /\ \A kind \in {"album", "playlist", "edplaylist", "track"} : HraLib[kind] \in Seq(Ids)
      /\ \A kind \in {"category", "genre"} : Encoded(HraLib[kind]) \in Seq(Ids)
    BY HraAssumption, IdListIs
<1>. QED BY <1>2, <1>3

LEMMA HraBrowseLeads ==
    ASSUME NEW i \in 1..Len(HraRoutes), NEW view, view = HraRoutes[i].view, NEW args,
           NEW on \in BOOLEAN, NEW net \in Nat
    PROVE  HraBrowse(view, args, on, net) \in Seq(Leading(HraRoutes))
<1> DEFINE L == Leading(HraRoutes)
<1> HIDE DEF L
<1>1. view \in {"root", "allCategories", "allGenres", "category_view", "allEditorGenres", "allEditorMoods",
                "allEditorThemes", "allEditorPlaylists", "edplaylist_view", "allUserPlaylists", "allUserAlbums",
                "allUserTracks", "userplaylist_view", "album_view"}
    BY HraIs DEF Route
<1>2. /\ HView("category_view", Encoded(HraLib.category)) \in Seq(L)
      /\ HView("category_view", Encoded(HraLib.genre)) \in Seq(L)
      /\ HView("album_view", HraLib.album) \in Seq(L) /\ HView("edplaylist_view", HraLib.edplaylist) \in Seq(L)
      /\ HView("userplaylist_view", HraLib.playlist) \in Seq(L) /\ trackentries(HraLib.track) \in Seq(L)
      /\ <<>> \in Seq(L)
    BY HraLists, Short DEF L
<1>3. HraRoot(on) \in Seq(L)
    <2>1. {"allcategories", "allgenres", "alleditorplaylists", "alluserplaylists", "alluseralbums",
           "allusertracks"} \subseteq Words
        BY DEF Words
    <2>2. Fits(<<>>, <<>>) /\ \A w \in Words : Fits(<<w>>, <<>>)
        BY FitsIs
    <2> DEFINE dir(view_) == add_directory(HraRoutes, view_, <<>>)
               views == <<"allCategories", "allGenres", "allEditorPlaylists", "allUserPlaylists",
                          "allUserAlbums", "allUserTracks">>
    <2>3. /\ dir("root") \in L /\ dir("allCategories") \in L /\ dir("allGenres") \in L
          /\ dir("allEditorPlaylists") \in L /\ dir("allUserPlaylists") \in L
          /\ dir("allUserAlbums") \in L /\ dir("allUserTracks") \in L
        BY <2>1, <2>2, HraTable, HraRules, RuleLeads, Zenon DEF L
    <2> HIDE DEF dir
    <2>4. Len(views) \in Nat /\ \A k \in 1..Len(views) : dir(views[k]) \in L
        BY <2>3
    <2>5. HraRoot(on) = IF ~on THEN <<dir("root")>> ELSE Directories(HraRoutes, views)
        BY Zenon DEF HraRoot, dir
    <2> HIDE DEF views
    <2>6. Directories(HraRoutes, views) \in Seq(L)
        BY <2>4, DirectoriesLead, Zenon DEF L, dir
    <2>. QED BY <2>3, <2>5, <2>6, Short
<1>4. CASE view = "root"
    BY <1>3, <1>4 DEF HraBrowse, L
<1>5. CASE view # "root" /\ ~HraGets(view, on, net)
    BY <1>2, <1>5 DEF HraBrowse, L
<1>6. CASE view # "root" /\ HraGets(view, on, net)
    BY <1>1, <1>2, <1>6 DEF HraBrowse, L
<1>. QED BY <1>4, <1>5, <1>6

LEMMA HraSearchLeads ==
    ASSUME NEW path, NEW net
    PROVE  HraSearch(path, net) \in Seq(Leading(HraRoutes))
<1>1. HView("album_view", HraLib.album) \in Seq(Leading(HraRoutes)) /\ <<>> \in Seq(Leading(HraRoutes))
    BY HraLists, Short
<1>. QED BY <1>1 DEF HraSearch

-----------------------------------------------------------------------------
(* What Deezer lists and finds *)

LEMMA DeezerIs ==
    /\ Len(DeezerRoutes) = 14
    /\ DeezerRoutes[1] = Route("root", <<>>)
    /\ DeezerRoutes[2] = Route("my_family", <<"my_family">>)
    /\ DeezerRoutes[3] = Route("my_favourite_albums", <<"my_favourite_albums">>)
    /\ DeezerRoutes[4] = Route("my_favourite_playlists", <<"my_favourite_playlists">>)
    /\ DeezerRoutes[5] = Route("my_favourite_artists", <<"my_favourite_artists">>)
    /\ DeezerRoutes[6] = Route("my_favourite_tracks", <<"my_favourite_tracks">>)
    /\ DeezerRoutes[7] = Route("favourite_albums", <<"favourite_albums", Arg>>)
    /\ DeezerRoutes[8] = Route("favourite_playlists", <<"favourite_playlists", Arg>>)
    /\ DeezerRoutes[9] = Route("favourite_artists", <<"favourite_artists", Arg>>)
    /\ DeezerRoutes[10] = Route("favourite_tracks", <<"favourite_tracks", Arg>>)
    /\ DeezerRoutes[11] = Route("playlist_view", <<"userplaylist", Arg>>)
    /\ DeezerRoutes[12] = Route("user_view", <<"user", Arg>>)
    /\ DeezerRoutes[13] = Route("artist_view", <<"artist", Arg>>)
    /\ DeezerRoutes[14] = Route("album_view", <<"album", Arg>>)
BY DEF DeezerRoutes, Route

LEMMA DeezerRules ==
    /\ Rule(DeezerRoutes, "root", <<>>)
    /\ Rule(DeezerRoutes, "my_family", <<"my_family">>)
    /\ Rule(DeezerRoutes, "my_favourite_albums", <<"my_favourite_albums">>)
    /\ Rule(DeezerRoutes, "my_favourite_playlists", <<"my_favourite_playlists">>)
    /\ Rule(DeezerRoutes, "my_favourite_artists", <<"my_favourite_artists">>)
    /\ Rule(DeezerRoutes, "my_favourite_tracks", <<"my_favourite_tracks">>)
    /\ Rule(DeezerRoutes, "favourite_albums", <<"favourite_albums", Arg>>)
    /\ Rule(DeezerRoutes, "favourite_playlists", <<"favourite_playlists", Arg>>)
    /\ Rule(DeezerRoutes, "favourite_artists", <<"favourite_artists", Arg>>)
    /\ Rule(DeezerRoutes, "favourite_tracks", <<"favourite_tracks", Arg>>)
    /\ Rule(DeezerRoutes, "playlist_view", <<"userplaylist", Arg>>)
    /\ Rule(DeezerRoutes, "user_view", <<"user", Arg>>)
    /\ Rule(DeezerRoutes, "artist_view", <<"artist", Arg>>)
    /\ Rule(DeezerRoutes, "album_view", <<"album", Arg>>)
BY DeezerIs DEF Rule

LEMMA DeezerLists ==
    /\ \A list \in Seq(Ids) :
         /\ DView("user_view", list) \in Seq(Leading(DeezerRoutes))
         /\ DView("album_view", list) \in Seq(Leading(DeezerRoutes))
         /\ DView("playlist_view", list) \in Seq(Leading(DeezerRoutes))
         /\ DView("artist_view", list) \in Seq(Leading(DeezerRoutes))
         /\ trackentries(list) \in Seq(Leading(DeezerRoutes))
    /\ \A kind \in {"artist", "album", "playlist", "track", "user"} : DeezerLib[kind] \in Seq(Ids)
    /\ \A list \in Seq(Ids) : \A limit \in Nat : Loop(list, limit).things \in Seq(Ids)
<1>1. {"user", "album", "userplaylist", "artist"} \subseteq Words
    BY DEF Words
<1>2. ASSUME NEW list \in Seq(Ids)
      PROVE  /\ DView("user_view", list) \in Seq(Leading(DeezerRoutes))
             /\ DView("album_view", list) \in Seq(Leading(DeezerRoutes))
             /\ DView("playlist_view", list) \in Seq(Leading(DeezerRoutes))
             /\ DView("artist_view", list) \in Seq(Leading(DeezerRoutes))
             /\ trackentries(list) \in Seq(Leading(DeezerRoutes))
    BY <1>1, DeezerTable, DeezerRules, ThingsLead, StreamedLead, Zenon DEF DView
<1>3. \A kind \in {"artist", "album", "playlist", "track", "user"} : DeezerLib[kind] \in Seq(Ids)
    BY DeezerAssumption, IdListIs
<1>4. ASSUME NEW list \in Seq(Ids), NEW limit \in Nat PROVE Loop(list, limit).things \in Seq(Ids)
    <2> DEFINE full == (Len(list) + DSlice - 1) \div DSlice
    <2>1. DSlice \in Nat \ {0} /\ full \in Int
        BY DeezerAssumption, LenProperties
    <2>2. Loop(list, limit).things = Pages(list, limit, DSlice, full)
        BY DEF Loop
    <2> HIDE DEF full
    <2>. QED BY <2>1, <2>2, PagesAre
<1>. QED BY <1>2, <1>3, <1>4

LEMMA DeezerBrowseLeads ==
    ASSUME NEW i \in 1..Len(DeezerRoutes), NEW view, view = DeezerRoutes[i].view,
           NEW args, Fits(DeezerRoutes[i].pattern, args), NEW on \in BOOLEAN
    PROVE  DeezerBrowse(view, args, on) \in Seq(Leading(DeezerRoutes))
<1> DEFINE L == Leading(DeezerRoutes)
           dir(v) == add_directory(DeezerRoutes, v, <<>>)
<1> HIDE DEF L
<1>1. view \in {"root", "my_family", "my_favourite_albums", "my_favourite_playlists", "my_favourite_artists",
                "my_favourite_tracks", "favourite_albums", "favourite_playlists", "favourite_artists",
                "favourite_tracks", "playlist_view", "user_view", "artist_view", "album_view"}
    BY DeezerIs DEF Route
<1>2. \A list \in Seq(Ids) : /\ DView("user_view", list) \in Seq(L) /\ DView("album_view", list) \in Seq(L)
                             /\ DView("playlist_view", list) \in Seq(L) /\ DView("artist_view", list) \in Seq(L)
                             /\ trackentries(list) \in Seq(L)
    BY DeezerLists DEF L
<1>3. Listed(view).things \in Seq(Ids)
    <2>1. /\ DeezerLib.album \in Seq(Ids) /\ DeezerLib.playlist \in Seq(Ids) /\ DeezerLib.artist \in Seq(Ids)
          /\ DeezerLib.user \in Seq(Ids) /\ DeezerLib.track \in Seq(Ids) /\ <<>> \in Seq(Ids)
        BY DeezerLists, Short
    <2>2. \A limit \in Nat : \A list \in Seq(Ids) : Loop(list, limit).things \in Seq(Ids)
        BY DeezerLists, Zenon
    <2>3. \A list \in Seq(Ids) : Loop(list, 500).things \in Seq(Ids)
        <3>1. 500 \in Nat OBVIOUS
        <3>. QED BY <2>2, <3>1
    <2>4. \A list \in Seq(Ids) : Loop(list, 1000).things \in Seq(Ids)
        <3>1. 1000 \in Nat OBVIOUS
        <3>. QED BY <2>2, <3>1
    <2>5. \A list \in Seq(Ids) : Loop(list, 2000).things \in Seq(Ids)
        <3>1. 2000 \in Nat OBVIOUS
        <3>. QED BY <2>2, <3>1
    <2>6. /\ Loop(DeezerLib.album, 1000).things \in Seq(Ids) /\ Loop(DeezerLib.playlist, 1000).things \in Seq(Ids)
          /\ Loop(DeezerLib.artist, 1000).things \in Seq(Ids) /\ Loop(DeezerLib.album, 500).things \in Seq(Ids)
          /\ Loop(DeezerLib.track, 2000).things \in Seq(Ids)
        BY <2>1, <2>3, <2>4, <2>5
    <2>. QED BY <2>1, <2>6 DEF Listed
<1>4. CASE view = "root"
    <2>1. {"my_favourite_albums", "my_favourite_playlists", "my_favourite_tracks", "my_favourite_artists",
           "my_family"} \subseteq Words
        BY DEF Words
    <2>2. \A w \in Words : Fits(<<w>>, <<>>)
        BY FitsIs
    <2> DEFINE views == <<"my_favourite_albums", "my_favourite_playlists", "my_favourite_tracks",
                          "my_favourite_artists", "my_family">>
    <2>3. /\ dir("my_favourite_albums") \in L /\ dir("my_favourite_playlists") \in L
          /\ dir("my_favourite_tracks") \in L /\ dir("my_favourite_artists") \in L /\ dir("my_family") \in L
        BY <2>1, <2>2, DeezerTable, DeezerRules, RuleLeads, Zenon DEF L
    <2> HIDE DEF dir
    <2>4. Len(views) \in Nat /\ \A k \in 1..Len(views) : dir(views[k]) \in L
        BY <2>3
    <2>5. DeezerBrowse(view, args, on) = IF ~on THEN <<>> ELSE Directories(DeezerRoutes, views)
        BY <1>4 DEF DeezerBrowse, DeezerRoot
    <2> HIDE DEF views
    <2>6. Directories(DeezerRoutes, views) \in Seq(L)
        BY <2>4, DirectoriesLead, Zenon DEF L, dir
    <2>. QED BY <2>5, <2>6, Short DEF L
<1>5. CASE view = "user_view"
    <2>1. PICK x \in Id : args = <<x>>
        <3>1. DeezerRoutes[i].view = "user_view" /\ Rule(DeezerRoutes, "user_view", <<"user", Arg>>)
            BY <1>5, DeezerRules
        <3>. QED BY <3>1, DeezerTable, CalledWithOne
    <2> DEFINE views == <<"favourite_albums", "favourite_playlists", "favourite_tracks", "favourite_artists">>
               e(k) == add_directory(DeezerRoutes, views[k], args)
    <2>2. DeezerBrowse(view, args, on) = [k \in 1..4 |-> e(k)]
        BY <1>5 DEF DeezerBrowse
    <2>3. {"favourite_albums", "favourite_playlists", "favourite_tracks", "favourite_artists"} \subseteq Words
        BY DEF Words
    <2>4. \A w \in Words : Fits(<<w, Arg>>, args)
        BY <2>1, FitsIs, Zenon
    <2>5. /\ add_directory(DeezerRoutes, "favourite_albums", args) \in L
          /\ add_directory(DeezerRoutes, "favourite_playlists", args) \in L
          /\ add_directory(DeezerRoutes, "favourite_tracks", args) \in L
          /\ add_directory(DeezerRoutes, "favourite_artists", args) \in L
        BY <2>3, <2>4, DeezerTable, DeezerRules, RuleLeads, Zenon DEF L
    <2>6. \A k \in 1..4 : e(k) \in L
        BY <2>5
    <2> HIDE DEF e
    <2>. QED BY <2>2, <2>6, IsASeq DEF L
<1>6. CASE view \notin {"root", "user_view"}
    BY <1>1, <1>2, <1>3, <1>6 DEF DeezerBrowse, L
<1>. QED BY <1>4, <1>5, <1>6

LEMMA DeezerSearchLeads ==
    ASSUME NEW kind
    PROVE  DeezerSearch(kind) \in Seq(Leading(DeezerRoutes))
<1> DEFINE L == Leading(DeezerRoutes)
<1> HIDE DEF L
<1>1. /\ Loop(DeezerLib.artist, 30).things \in Seq(Ids) /\ Loop(DeezerLib.album, 50).things \in Seq(Ids)
      /\ Loop(DeezerLib.track, 200).things \in Seq(Ids) /\ <<>> \in Seq(Ids)
    BY DeezerLists, Short
<1>2. /\ DeezerFound(kind).artist.things \in Seq(Ids) /\ DeezerFound(kind).album.things \in Seq(Ids)
      /\ DeezerFound(kind).track.things \in Seq(Ids)
    BY <1>1 DEF DeezerFound
<1>3. /\ DView("artist_view", DeezerFound(kind).artist.things) \in Seq(L)
      /\ DView("album_view", DeezerFound(kind).album.things) \in Seq(L)
      /\ trackentries(DeezerFound(kind).track.things) \in Seq(L)
    BY <1>2, DeezerLists DEF L
<1>4. \A s, u \in Seq(L) : s \o u \in Seq(L)
    BY ConcatProperties
<1>5. DeezerSearch(kind) \in Seq(L)
    BY <1>3, <1>4 DEF DeezerSearch
<1>. QED BY <1>5 DEF L

-----------------------------------------------------------------------------
(* What Spotify lists and finds *)

LEMMA SpotifyIs ==
    /\ Len(SpotifyRoutes) = 14
    /\ SpotifyRoutes[1] = Route("root", <<>>)
    /\ SpotifyRoutes[2] = Route("my_music", <<"my_music">>)
    /\ SpotifyRoutes[3] = Route("album_view", <<"album", Arg>>)
    /\ SpotifyRoutes[4] = Route("playlist_view", <<"playlist", Arg, Arg>>)
    /\ SpotifyRoutes[5] = Route("category_view", <<"category", Arg>>)
    /\ SpotifyRoutes[6] = Route("artist_view", <<"artist", Arg>>)
    /\ SpotifyRoutes[7] = Route("new_releases", <<"new_releases">>)
    /\ SpotifyRoutes[8] = Route("recently_played", <<"recently_played">>)
    /\ SpotifyRoutes[9] = Route("favourite_tracks", <<"favourite_tracks">>)
    /\ SpotifyRoutes[10] = Route("favourite_albums", <<"favourite_albums">>)
    /\ SpotifyRoutes[11] = Route("featured_playlists", <<"featured_playlists">>)
    /\ SpotifyRoutes[12] = Route("genres_and_moods", <<"genres_and_moods">>)
    /\ SpotifyRoutes[13] = Route("my_playlists", <<"my_playlists">>)
    /\ SpotifyRoutes[14] = Route("favourite_artists", <<"favourite_artists">>)
BY DEF SpotifyRoutes, Route

LEMMA SpotifyRules ==
    /\ Rule(SpotifyRoutes, "root", <<>>)
    /\ Rule(SpotifyRoutes, "my_music", <<"my_music">>)
    /\ Rule(SpotifyRoutes, "album_view", <<"album", Arg>>)
    /\ Rule(SpotifyRoutes, "playlist_view", <<"playlist", Arg, Arg>>)
    /\ Rule(SpotifyRoutes, "category_view", <<"category", Arg>>)
    /\ Rule(SpotifyRoutes, "artist_view", <<"artist", Arg>>)
    /\ Rule(SpotifyRoutes, "new_releases", <<"new_releases">>)
    /\ Rule(SpotifyRoutes, "recently_played", <<"recently_played">>)
    /\ Rule(SpotifyRoutes, "favourite_tracks", <<"favourite_tracks">>)
    /\ Rule(SpotifyRoutes, "favourite_albums", <<"favourite_albums">>)
    /\ Rule(SpotifyRoutes, "featured_playlists", <<"featured_playlists">>)
    /\ Rule(SpotifyRoutes, "genres_and_moods", <<"genres_and_moods">>)
    /\ Rule(SpotifyRoutes, "my_playlists", <<"my_playlists">>)
    /\ Rule(SpotifyRoutes, "favourite_artists", <<"favourite_artists">>)
BY SpotifyIs DEF Rule

LEMMA SpotifyLists ==
    LET L == Leading(SpotifyRoutes)
    IN  /\ \A list \in Seq(Ids) :
             /\ SView("album_view", list) \in Seq(L) /\ SView("artist_view", list) \in Seq(L)
             /\ SView("category_view", list) \in Seq(L) /\ trackentries(list) \in Seq(L)
             /\ FirstPage(list) \in Seq(Ids) /\ Len(FirstPage(list)) \in 0..Len(list)
        /\ \A kind \in {"artist", "album", "playlist", "track", "category"} : SpotifyLib[kind] \in Seq(Ids)
        /\ SubSeq(SPlaylists, 1, Len(FirstPage(SpotifyLib.playlist))) \in Seq(L)
<1> DEFINE L == Leading(SpotifyRoutes)
<1> HIDE DEF L
<1>1. {"album", "artist", "category", "playlist"} \subseteq Words
    BY DEF Words
<1>2. ASSUME NEW list \in Seq(Ids)
      PROVE  /\ SView("album_view", list) \in Seq(L) /\ SView("artist_view", list) \in Seq(L)
             /\ SView("category_view", list) \in Seq(L) /\ trackentries(list) \in Seq(L)
    BY <1>1, SpotifyTable, SpotifyRules, ThingsLead, StreamedLead, Zenon DEF SView, L
<1>3. ASSUME NEW list \in Seq(Ids)
      PROVE  FirstPage(list) \in Seq(Ids) /\ Len(FirstPage(list)) \in 0..Len(list)
    <2> DEFINE n == IF Len(list) < SSlice THEN Len(list) ELSE SSlice
    <2>1. n \in Nat /\ n <= Len(list) /\ Len(list) \in Nat /\ \A k \in 1..Len(list) : list[k] \in Ids
        BY SpotifyAssumption, LenProperties, ElementOfSeq
    <2> HIDE DEF n
    <2>2. SubSeq(list, 1, n) \in Seq(Ids) /\ Len(SubSeq(list, 1, n)) = IF 1 <= n THEN n ELSE 0
        BY <2>1, SubSeqProperties
    <2>3. FirstPage(list) = SubSeq(list, 1, n)
        BY Zenon DEF FirstPage, n
    <2>. QED BY <2>1, <2>2, <2>3
<1>4. \A kind \in {"artist", "album", "playlist", "track", "category"} : SpotifyLib[kind] \in Seq(Ids)
    BY SpotifyAssumption, IdListIs
<1>5. SPlaylists \in Seq(L) /\ Len(SPlaylists) = Len(SpotifyLib.playlist)
    <2> DEFINE list == SpotifyLib.playlist
               e(k) == add_directory(SpotifyRoutes, "playlist_view", <<list[k], Owner>>)
    <2>1. Len(list) \in Nat /\ \A k \in 1..Len(list) : list[k] \in Id
        BY <1>4, LenProperties, ElementOfSeq DEF Ids
    <2>2. Owner \in Id
        BY SpotifyAssumption, IdIsOne DEF Ids
    <2>3. ASSUME NEW k \in 1..Len(list) PROVE e(k) \in L
        <3>1. Fits(<<"playlist", Arg, Arg>>, <<list[k], Owner>>)
            BY <1>1, <2>1, <2>2, FitsIs, Zenon
        <3>. QED BY <3>1, SpotifyTable, SpotifyRules, RuleLeads, Zenon DEF L
    <2>4. SPlaylists = [k \in 1..Len(list) |-> e(k)]
        BY Zenon DEF SPlaylists
    <2> HIDE DEF e, list
    <2>5. SPlaylists \in Seq(L)
        BY <2>1, <2>3, <2>4, IsASeq
    <2>6. Len(SPlaylists) = Len(list)
        BY <2>1, <2>4, <2>5, LenProperties
    <2>. QED BY <2>5, <2>6 DEF list
<1>6. SubSeq(SPlaylists, 1, Len(FirstPage(SpotifyLib.playlist))) \in Seq(L)
    <2> DEFINE n == Len(FirstPage(SpotifyLib.playlist))
    <2>1. n \in Int /\ n <= Len(SPlaylists)
        BY <1>3, <1>4, <1>5
    <2> HIDE DEF n
    <2>2. SubSeq(SPlaylists, 1, n) \in Seq(L)
        BY <1>5, <2>1, BeginningIs
    <2>. QED BY <2>2 DEF n
<1>. QED BY <1>2, <1>3, <1>4, <1>6, Zenon DEF L

LEMMA SpotifyBrowseLeads ==
    ASSUME NEW i \in 1..Len(SpotifyRoutes), NEW view, view = SpotifyRoutes[i].view
    PROVE  SpotifyBrowse(view) \in Seq(Leading(SpotifyRoutes))
<1> DEFINE L == Leading(SpotifyRoutes)
           dir(v) == add_directory(SpotifyRoutes, v, <<>>)
<1>1. view \in {"root", "my_music", "album_view", "playlist_view", "category_view", "artist_view", "new_releases",
                "recently_played", "favourite_tracks", "favourite_albums", "featured_playlists",
                "genres_and_moods", "my_playlists", "favourite_artists"}
    BY SpotifyIs DEF Route
<1>2. /\ SpotifyLib.artist \in Seq(Ids) /\ SpotifyLib.album \in Seq(Ids) /\ SpotifyLib.track \in Seq(Ids)
      /\ FirstPage(SpotifyLib.track) \in Seq(Ids) /\ FirstPage(SpotifyLib.album) \in Seq(Ids)
      /\ FirstPage(SpotifyLib.category) \in Seq(Ids)
    BY SpotifyLists
<1>3. /\ trackentries(SpotifyLib.track) \in Seq(L) /\ trackentries(FirstPage(SpotifyLib.track)) \in Seq(L)
      /\ SView("album_view", SpotifyLib.album) \in Seq(L)
      /\ SView("album_view", FirstPage(SpotifyLib.album)) \in Seq(L)
      /\ SView("artist_view", SpotifyLib.artist) \in Seq(L)
      /\ SView("category_view", FirstPage(SpotifyLib.category)) \in Seq(L)
      /\ SubSeq(SPlaylists, 1, Len(FirstPage(SpotifyLib.playlist))) \in Seq(L)
    BY <1>2, SpotifyLists, Zenon
<1> HIDE DEF L
<1>4. /\ dir("my_music") \in L /\ dir("new_releases") \in L /\ dir("featured_playlists") \in L
      /\ dir("genres_and_moods") \in L /\ dir("recently_played") \in L /\ dir("favourite_tracks") \in L
      /\ dir("favourite_albums") \in L /\ dir("favourite_artists") \in L /\ dir("my_playlists") \in L
    <2>1. {"my_music", "new_releases", "featured_playlists", "genres_and_moods", "recently_played",
           "favourite_tracks", "favourite_albums", "favourite_artists", "my_playlists"} \subseteq Words
        BY DEF Words
    <2>2. \A w \in Words : Fits(<<w>>, <<>>)
        BY FitsIs
    <2>. QED BY <2>1, <2>2, SpotifyTable, SpotifyRules, RuleLeads, Zenon DEF L
<1> HIDE DEF dir
<1>5. CASE view = "root"
    <2> DEFINE views == <<"my_music", "new_releases", "featured_playlists", "genres_and_moods">>
    <2>1. SpotifyBrowse(view) = Directories(SpotifyRoutes, views)
        BY <1>5 DEF SpotifyBrowse
    <2>2. Len(views) \in Nat /\ \A k \in 1..Len(views) : dir(views[k]) \in L
        BY <1>4
    <2> HIDE DEF views
    <2>3. Directories(SpotifyRoutes, views) \in Seq(L)
        BY <2>2, DirectoriesLead, Zenon DEF L, dir
    <2>. QED BY <2>1, <2>3 DEF L
<1>6. CASE view = "my_music"
    <2> DEFINE views == <<"recently_played", "favourite_tracks", "favourite_albums", "favourite_artists", "my_playlists">>
    <2>1. SpotifyBrowse(view) = Directories(SpotifyRoutes, views)
        BY <1>6 DEF SpotifyBrowse
    <2>2. Len(views) \in Nat /\ \A k \in 1..Len(views) : dir(views[k]) \in L
        BY <1>4
    <2> HIDE DEF views
    <2>3. Directories(SpotifyRoutes, views) \in Seq(L)
        BY <2>2, DirectoriesLead, Zenon DEF L, dir
    <2>. QED BY <2>1, <2>3 DEF L
<1>7. CASE view \notin {"root", "my_music"}
    BY <1>1, <1>3, <1>7 DEF SpotifyBrowse, L
<1>. QED BY <1>5, <1>6, <1>7

LEMMA SpotifySearchLeads ==
    ASSUME NEW kind
    PROVE  SpotifySearch(kind) \in Seq(Leading(SpotifyRoutes))
<1> DEFINE L == Leading(SpotifyRoutes)
           artists == SView("artist_view", FirstPage(SpotifyLib.artist))
           albums == SView("album_view", FirstPage(SpotifyLib.album))
           playlists == SubSeq(SPlaylists, 1, Len(FirstPage(SpotifyLib.playlist)))
           tracks == trackentries(Pages(SpotifyLib.track, 3 * SSlice, SSlice, 3))
           Show(c, entries) == IF c \in SpotifySearched(kind) THEN entries ELSE <<>>
<1>1. /\ SpotifyLib.artist \in Seq(Ids) /\ SpotifyLib.album \in Seq(Ids) /\ SpotifyLib.track \in Seq(Ids)
      /\ FirstPage(SpotifyLib.artist) \in Seq(Ids) /\ FirstPage(SpotifyLib.album) \in Seq(Ids)
    BY SpotifyLists
<1>2. Pages(SpotifyLib.track, 3 * SSlice, SSlice, 3) \in Seq(Ids)
    <2>1. 3 * SSlice \in Nat /\ SSlice \in Nat \ {0} /\ 3 \in Int
        BY SpotifyAssumption
    <2>. QED BY <1>1, <2>1, PagesAre
<1>3. artists \in Seq(L) /\ albums \in Seq(L) /\ playlists \in Seq(L) /\ tracks \in Seq(L)
    BY <1>1, <1>2, SpotifyLists, Zenon
<1> HIDE DEF L, artists, albums, playlists, tracks
<1>4. \A c : \A s \in Seq(L) : Show(c, s) \in Seq(L)
    BY Short
<1> HIDE DEF Show
<1>5. \A s, u \in Seq(L) : s \o u \in Seq(L)
    BY ConcatProperties
<1>6. SpotifySearch(kind) = Show("artist", artists) \o Show("album", albums) \o Show("playlist", playlists)
                            \o Show("track", tracks)
    BY Zenon DEF SpotifySearch, Show, artists, albums, playlists, tracks
<1>7. SpotifySearch(kind) \in Seq(L)
    BY <1>3, <1>4, <1>5, <1>6
<1>. QED BY <1>7 DEF L

-----------------------------------------------------------------------------
(* Every entry leads back *)

\* The listings on show and in the cache lead back, whichever service made them.
LeadInv ==
    /\ IInv /\ service \in Services
    /\ cache.entries \in Seq(Leading(Routes))
    /\ answer.entries \in Seq(Leading(Routes))

LEMMA RoutesTable == ASSUME Fixed PROVE Table(Routes)
<1>1. Routes \in {QobuzRoutes, TidalRoutes, HraRoutes, DeezerRoutes, SpotifyRoutes}
    BY DEF Fixed, Routes
<1>. QED BY <1>1, QobuzTable, TidalTable, HraTable, DeezerTable, SpotifyTable, Zenon

\* The places which may be asked for, and the identifiers of the tracks.
LEMMA PlacesArePaths ==
    ASSUME LeadInv
    PROVE  Places \subseteq Paths /\ \A track \in Tracks : trackid_from_urlpath(track) \in Paths
<1>1. \A i \in 1..Len(answer.entries) : answer.entries[i] \in Leading(Routes)
    BY ElementOfSeq DEF LeadInv
<1>2. \A e \in Leading(Routes) : e.path \in Paths
    BY DEF Leading, Entries
<1>3. \A e \in Leading(Routes) : e.kind = "it" => trackid_from_urlpath(e.path) \in Paths
    BY DEF Leading
<1>4. Bookmarks[service] \subseteq Paths
    <2>1. Bookmarks[service] \subseteq Seq(STRING) /\ STRING \subseteq Segments
        BY BookmarksAssumption DEF LeadInv, Segments
    <2>2. \A p \in Seq(STRING) : p \in Seq(Segments)
        BY <2>1, SeqMonotonic
    <2>. QED BY <2>1, <2>2 DEF Paths
<1>5. <<>> \in Paths
    BY Short DEF Paths
<1>6. ASSUME NEW place \in Places PROVE place \in Paths
    <2>1. CASE place \in {answer.entries[i].path : i \in
                            {j \in 1..Len(answer.entries) : answer.entries[j].kind = "ct"}}
        BY <1>1, <1>2, <2>1
    <2>. QED BY <1>4, <1>5, <2>1, Zenon DEF Places
<1>7. ASSUME NEW track \in Tracks PROVE trackid_from_urlpath(track) \in Paths
    <2>1. PICK i \in 1..Len(answer.entries) : answer.entries[i].kind = "it" /\ track = answer.entries[i].path
        BY DEF Tracks
    <2>. QED BY <1>1, <1>3, <2>1
<1>. QED BY <1>6, <1>7

LEMMA BrowsedLeads ==
    ASSUME Fixed, NEW place \in Paths, NEW r, r.session \in Session, r.net \in Nat, NEW account
    PROVE  Browsed(place, r, account).entries \in Seq(Leading(Routes))
<1> DEFINE L == Leading(Routes)
           to == _dispatch(Routes, place)
           b == Browsed(place, r, account)
<1>1. <<>> \in Seq(L)
    BY Short
<1>2. to.view = "none" \/ \E i \in 1..Len(Routes) : to.view = Routes[i].view /\ Fits(Routes[i].pattern, to.args)
    BY RoutesTable, Asked
<1>3. r.session.on \in BOOLEAN
    BY DEF Session
<1>4. CASE b.raised
    BY <1>1, <1>4 DEF Browsed
<1>5. CASE ~b.raised
    <2>1. to.view # "none"
        BY <1>5 DEF Browsed
    <2>2. PICK i \in 1..Len(Routes) : to.view = Routes[i].view /\ Fits(Routes[i].pattern, to.args)
        BY <1>2, <2>1
    <2> HIDE DEF to
    <2>3. CASE service = "qobuz"
        <3>1. Routes = QobuzRoutes
            BY <2>3 DEF Routes
        <3>2. b.entries = IF QobuzEmpty(to.view, r.session.user) THEN <<>> ELSE QobuzBrowse(to.view, to.args, r.net)
            BY <1>5, <2>3 DEF Browsed, to
        <3>3. QobuzBrowse(to.view, to.args, r.net) \in Seq(L)
            BY <2>2, <3>1, QobuzBrowseLeads
        <3> HIDE DEF b, L
        <3>4. b.entries \in Seq(L)
            BY <1>1, <3>2, <3>3
        <3>. QED BY <3>4 DEF b, L
    <2>4. CASE service = "tidal"
        <3>1. Routes = TidalRoutes
            BY <2>4 DEF Routes
        <3>2. b.entries = TidalBrowse(to.view, to.args, IF r.session.user = "nobody" THEN "US" ELSE "local")
            BY <1>5, <2>4 DEF Browsed, to
        <3>. QED BY <2>2, <3>1, <3>2, TidalBrowseLeads
    <2>5. CASE service = "hra"
        <3>1. Routes = HraRoutes
            BY <2>5 DEF Routes
        <3>2. b.entries = HraBrowse(to.view, to.args, r.session.on, r.net)
            BY <1>5, <2>5 DEF Browsed, to
        <3>. QED BY <1>3, <2>2, <3>1, <3>2, HraBrowseLeads
    <2>6. CASE service = "deezer"
        <3>1. Routes = DeezerRoutes
            BY <2>6 DEF Routes
        <3>2. b.entries = DeezerBrowse(to.view, to.args, r.session.on)
            BY <1>5, <2>6 DEF Browsed, to
        <3>. QED BY <1>3, <2>2, <3>1, <3>2, DeezerBrowseLeads
    <2>7. CASE service = "spotify"
        <3>1. Routes = SpotifyRoutes
            BY <2>7 DEF Routes
        <3>2. b.entries = SpotifyBrowse(to.view)
            BY <1>5, <2>7 DEF Browsed, to
        <3>. QED BY <2>2, <3>1, <3>2, SpotifyBrowseLeads
    <2>. QED BY <2>3, <2>4, <2>5, <2>6, <2>7 DEF Fixed
<1>. QED BY <1>4, <1>5, Zenon DEF b, L

LEMMA SearchedLeads ==
    ASSUME Fixed, NEW place, NEW kind, NEW r, r.net \in Nat, NEW account
    PROVE  Searched(place, kind, r, account).entries \in Seq(Leading(Routes))
<1> DEFINE L == Leading(Routes)
           b == Searched(place, kind, r, account)
<1>1. <<>> \in Seq(L)
    BY Short
<1>2. CASE b.raised
    BY <1>1, <1>2 DEF Searched
<1>3. CASE ~b.raised
    <2>1. CASE service = "qobuz"
        <3>1. Routes = QobuzRoutes /\ b.entries = QobuzSearch(kind, r.net)
            BY <1>3, <2>1 DEF Routes, Searched
        <3>. QED BY <3>1, QobuzSearchLeads
    <2>2. CASE service = "tidal"
        <3>1. Routes = TidalRoutes /\ b.entries = TidalSearch(kind)
            BY <1>3, <2>2 DEF Routes, Searched
        <3>. QED BY <3>1, TidalSearchLeads
    <2>3. CASE service = "hra"
        <3>1. Routes = HraRoutes /\ b.entries = HraSearch(place, r.net)
            BY <1>3, <2>3 DEF Routes, Searched
        <3>. QED BY <3>1, HraSearchLeads
    <2>4. CASE service = "deezer"
        <3>1. Routes = DeezerRoutes /\ b.entries = DeezerSearch(kind)
            BY <1>3, <2>4 DEF Routes, Searched
        <3>. QED BY <3>1, DeezerSearchLeads
    <2>5. CASE service = "spotify"
        <3>1. Routes = SpotifyRoutes /\ b.entries = SpotifySearch(kind)
            BY <1>3, <2>5 DEF Routes, Searched
        <3>. QED BY <3>1, SpotifySearchLeads
    <2>. QED BY <2>1, <2>2, <2>3, <2>4, <2>5 DEF Fixed
<1>. QED BY <1>2, <1>3, Zenon DEF b, L

LEMMA LeadAnswer ==
    ASSUME LeadInv, IInv', NEW asked, NEW place, NEW r, NEW result, Answer(asked, place, r, result),
           result.entries \in Seq(Leading(Routes)), cache'.entries \in Seq(Leading(Routes))
    PROVE  LeadInv'
<1>1. service' = service /\ answer'.entries = result.entries
    BY DEF Answer
<1>2. Routes' = Routes
    BY <1>1 DEF Routes
<1>3. Leading(Routes)' = Leading(Routes)
    BY <1>2, Zenon DEF Leading, LeadsBack
<1>. QED BY <1>1, <1>3 DEF LeadInv

\* A listing is made of the rules, or comes from the cache; nothing else changes an entry.
LEMMA LeadBrowse ==
    ASSUME LeadInv, IInv', NEW place \in Paths, browse(place)
    PROVE  LeadInv'
<1>1. CASE /\ cache.place = place /\ proc # "exited" /\ proc' = "up"
           /\ \E net \in NetNow, account \in AccountNow :
                LET st == Started(net, account) IN session' = st.session /\ file' = st.file
           /\ answer' = [asked |-> "browse", place |-> place, kind |-> "entries",
                         entries |-> cache.entries, as |-> cache.as]
           /\ UNCHANGED <<service, appid, creds, cache, good>>
    <2>1. service' = service /\ cache' = cache /\ answer'.entries = cache.entries
        BY <1>1
    <2>2. Routes' = Routes
        BY <2>1 DEF Routes
    <2>3. Leading(Routes)' = Leading(Routes)
        BY <2>2, Zenon DEF Leading, LeadsBack
    <2>. QED BY <2>1, <2>3 DEF LeadInv
<1>2. CASE /\ cache.place # place
           /\ Command(LAMBDA ready, account :
                LET r == Again(place, ready, account)
                    b == Browsed(place, r, account)
                IN  /\ Answer("browse", place, r, b)
                    /\ cache' = IF b.raised \/ place \notin Kept THEN cache
                                ELSE [place |-> place, entries |-> b.entries, as |-> r.session])
    <2>1. PICK net \in NetNow, account \in AccountNow :
             LET r == Again(place, Ready(net, account), account)
                 b == Browsed(place, r, account)
             IN  /\ Answer("browse", place, r, b)
                 /\ cache' = IF b.raised \/ place \notin Kept THEN cache
                             ELSE [place |-> place, entries |-> b.entries, as |-> r.session]
        BY <1>2 DEF Command
    <2> DEFINE r == Again(place, Ready(net, account), account)
               b == Browsed(place, r, account)
    <2>2. r.session \in Session /\ r.net \in Nat
        BY NetType, AgainKeeps DEF LeadInv
    <2> HIDE DEF r
    <2>3. b.entries \in Seq(Leading(Routes))
        BY <2>2, BrowsedLeads DEF LeadInv, IInv
    <2>4. /\ Answer("browse", place, r, b)
          /\ cache' = IF b.raised \/ place \notin Kept THEN cache
                      ELSE [place |-> place, entries |-> b.entries, as |-> r.session]
        BY <2>1 DEF r
    <2> HIDE DEF b
    <2>5. cache'.entries \in Seq(Leading(Routes))
        BY <2>3, <2>4 DEF LeadInv
    <2>. QED BY <2>3, <2>4, <2>5, LeadAnswer
<1>. QED BY <1>1, <1>2 DEF browse

\* The track whose metadata or whose stream is asked for keeps its identifier.
LEMMA LeadTrack ==
    ASSUME LeadInv, NEW track \in Tracks
    PROVE  trackentries(<<trackid_from_urlpath(track)>>) \in Seq(Leading(Routes)) /\ <<>> \in Seq(Leading(Routes))
<1>1. <<trackid_from_urlpath(track)>> \in Seq(Paths)
    BY PlacesArePaths, Short
<1>. QED BY <1>1, TracksLead, Short

LEMMA LeadMeta ==
    ASSUME LeadInv, IInv', Meta
    PROVE  LeadInv'
<1> DEFINE id(track) == trackid_from_urlpath(track)
           raises(r) ==
              \/ r.raised \/ service = "spotify" \/ (service = "tidal" /\ r.net = 0)
              \/ (service = "qobuz" /\ QobuzRaises("track", r.session.user, r.net))
              \/ (service = "hra" /\ HraRaises("track", r.session.on, r.net))
              \/ (service = "deezer" /\ DeezerRaises("track", r.session.on, r.session.user, r.net))
           result(r, track) == [raised |-> raises(r), file |-> r.file,
                                entries |-> IF raises(r) THEN <<>> ELSE trackentries(<<id(track)>>)]
<1>1. PICK track \in Tracks, net \in NetNow, account \in AccountNow :
         Answer("meta", track, Ready(net, account), result(Ready(net, account), track))
    BY DEF Meta, Command
<1> DEFINE r == Ready(net, account)
<1>2. result(r, track).entries \in {<<>>, trackentries(<<id(track)>>)}
    <2> HIDE DEF raises
    <2>. QED OBVIOUS
<1> HIDE DEF result
<1>3. result(r, track).entries \in Seq(Leading(Routes))
    BY <1>2, LeadTrack
<1>4. cache'.entries \in Seq(Leading(Routes))
    BY DEF Meta, LeadInv
<1>. QED BY <1>1, <1>3, <1>4, LeadAnswer

LEMMA LeadPlay ==
    ASSUME LeadInv, IInv', Play
    PROVE  LeadInv'
<1> DEFINE early == service = "hra" /\ ~(proc = "up" /\ session.api)
<1>1. PICK track \in Tracks, net \in NetNow, account \in AccountNow :
         LET r == Ready(net, account)
             u == Uri(r.session, early, r.net)
             raises == r.raised \/ u.raises
         IN  Answer("trackuri", track, IF early THEN [r EXCEPT !.session = LoggedOut] ELSE r,
                    [raised |-> raises, file |-> r.file,
                     entries |-> IF raises \/ ~u.served THEN <<>>
                                 ELSE trackentries(<<trackid_from_urlpath(track)>>)])
    BY DEF Play, Command
<1> DEFINE r == Ready(net, account)
           u == Uri(r.session, early, r.net)
           raises == r.raised \/ u.raises
           as == IF early THEN [r EXCEPT !.session = LoggedOut] ELSE r
           entries == IF raises \/ ~u.served THEN <<>> ELSE trackentries(<<trackid_from_urlpath(track)>>)
           result == [raised |-> raises, file |-> r.file, entries |-> entries]
<1>2. Answer("trackuri", track, as, result)
    BY <1>1
<1>3. entries \in {<<>>, trackentries(<<trackid_from_urlpath(track)>>)}
    <2> HIDE DEF raises, u
    <2>. QED OBVIOUS
<1> HIDE DEF entries
<1>4. result.entries \in Seq(Leading(Routes))
    BY <1>3, LeadTrack
<1>5. cache'.entries \in Seq(Leading(Routes))
    BY DEF Play, LeadInv
<1> HIDE DEF result, as
<1>. QED BY <1>2, <1>4, <1>5, LeadAnswer

LEMMA LeadSearch ==
    ASSUME LeadInv, IInv', Search
    PROVE  LeadInv'
<1>1. PICK place \in Places, kind \in SearchKinds, net \in NetNow, account \in AccountNow :
         Answer("search", place, Ready(net, account), Searched(place, kind, Ready(net, account), account))
    BY DEF Search, Command
<1>2. Ready(net, account).net \in Nat
    BY NetType, ReadyKeeps DEF LeadInv
<1>3. Searched(place, kind, Ready(net, account), account).entries \in Seq(Leading(Routes))
    BY <1>2, SearchedLeads DEF LeadInv, IInv
<1>4. cache'.entries \in Seq(Leading(Routes))
    BY DEF Search, LeadInv
<1>. QED BY <1>1, <1>3, <1>4, LeadAnswer

LEMMA LeadQuiet ==
    ASSUME LeadInv, IInv',
           \/ Killed \/ ProcessExits \/ AfterExit \/ Expire \/ Older \/ TokenExpires \/ Authorize \/ Settle
           \/ UNCHANGED vars
    PROVE  LeadInv'
<1>1. service' = service
    BY DEF Killed, ProcessExits, AfterExit, Expire, Older, TokenExpires, Authorize, Settle, vars
<1>2. Routes' = Routes
    BY <1>1 DEF Routes
<1>3. Leading(Routes)' = Leading(Routes)
    BY <1>2, Zenon DEF Leading, LeadsBack
<1>4. cache'.entries \in {cache.entries, <<>>}
    BY DEF Killed, ProcessExits, AfterExit, Expire, Older, TokenExpires, Authorize, Settle, vars, NoCache
<1>5. answer'.entries \in {answer.entries, <<>>}
    BY DEF Killed, ProcessExits, AfterExit, Expire, Older, TokenExpires, Authorize, Settle, vars, NoAnswer
<1>. QED BY <1>1, <1>3, <1>4, <1>5, Short DEF LeadInv

LEMMA InitLeads == Init => LeadInv
<1>. SUFFICES ASSUME Init PROVE LeadInv
    OBVIOUS
<1>1. cache.entries = <<>> /\ answer.entries = <<>> /\ service \in Services
    BY DEF Init, NoCache, NoAnswer
<1>. QED BY <1>1, InitIInv, Short DEF LeadInv

LEMMA StepLeads == LeadInv /\ [Next]_vars => LeadInv'
<1>. SUFFICES ASSUME LeadInv, [Next]_vars PROVE LeadInv'
    OBVIOUS
<1>1. IInv'
    BY StepIInv DEF LeadInv
<1>2. CASE BrowseRoot
    BY <1>1, <1>2, Short, LeadBrowse DEF BrowseRoot, Paths
<1>3. CASE Browse
    BY <1>1, <1>3, PlacesArePaths, LeadBrowse DEF Browse
<1>4. CASE Meta \/ Search \/ Play
    BY <1>1, <1>4, LeadMeta, LeadSearch, LeadPlay
<1>5. CASE \/ Killed \/ ProcessExits \/ AfterExit \/ Expire \/ Older \/ TokenExpires \/ Authorize \/ Settle
           \/ UNCHANGED vars
    BY <1>1, <1>5, LeadQuiet
<1>. QED BY <1>2, <1>3, <1>4, <1>5 DEF Next

\* Every entry that a plugin shows leads back to what it was made for: make_path() and match()
\* of routing.py undo each other in the tables of the five services, no place is matched by two
\* rules, and the identifier of a track comes out of its address as it went in
\* (trackid_from_urlpath()), whether the listing is new or from the cache.
THEOREM EntriesReturn == Spec => []EntriesLeadBack
<1>1. LeadInv => EntriesLeadBack
    <2>. SUFFICES ASSUME LeadInv, NEW i \in 1..Len(answer.entries)
                  PROVE  LeadsBack(Routes, answer.entries[i])
        BY Zenon DEF EntriesLeadBack, LeadsBack
    <2>1. answer.entries[i] \in Leading(Routes)
        BY ElementOfSeq DEF LeadInv
    <2>. QED BY <2>1 DEF Leading
<1>2. Spec => []LeadInv
    BY InitLeads, StepLeads, PTL DEF Spec
<1>. QED BY <1>1, <1>2, PTL
=============================================================================
