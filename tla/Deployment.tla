------------------------------ MODULE Deployment ------------------------------
(***************************************************************************)
(* The addresses of a deployment and the names of its callers: what        *)
(* kaas-ui dials and what it hands the browser (oidc.rs's discovery,       *)
(* dex.rs, assets.rs, config.rs's base_path, base.ts), who a token says    *)
(* its bearer is (identity.rs), and which writes are the page's own.       *)
(*                                                                         *)
(* A text is a sequence of tokens: "/", a space, or a word; the text of an *)
(* address begins with its scheme and host, a token of Authorities.  Names *)
(* that begin alike are different tokens, and an address is never the      *)
(* beginning of another's word.                                            *)
(***************************************************************************)
EXTENDS Policy, SequencesExt

CONSTANTS
  Authorities,  \* schemes and hosts
  Public,       \* the one browsers use, in front of this process
  Inside        \* the one of the deployment's Dex, in the cluster

ASSUME HostsAssumption == Public \in Authorities /\ Inside \in Authorities /\ Public # Inside

\* trim_end_matches, trim_start_matches
TrimmedEnd(text, tokens) ==
  LET kept == {i \in DOMAIN text : text[i] \notin tokens}
  IN  SubSeq(text, 1, IF kept = {} THEN 0 ELSE CHOOSE i \in kept : \A j \in kept : j <= i)

TrimmedAround(text, tokens) == Reverse(TrimmedEnd(Reverse(TrimmedEnd(text, tokens)), tokens))

IsAddress(text) == text # <<>> /\ Head(text) \in Authorities

IsUnder(path, text) == text = path \/ IsPrefix(path \o <<"/">>, text)

(***************************************************************************)
(* Discovery.  A deployment is                                             *)
(*   [issuer, redirect, internal, upstream, dex, base]                     *)
(* : the addresses of its auth block, internal the optional one; the       *)
(* upstream of its dex block, or Absent; the issuer its Dex was given; and *)
(* the prefix that the front takes off what it forwards.                   *)
(***************************************************************************)
\* default_internal_url_from, as apply_defaults calls it.
InternalOf(d) ==
  IF d.internal # Absent \/ d.upstream = Absent \/ ~IsAddress(d.issuer) THEN d.internal
  ELSE TrimmedEnd(d.upstream, {"/"}) \o TrimmedEnd(Tail(d.issuer), {"/"})

\* DexProxy::new, and build_router, which merges its routes.
ProxyFails(d) == d.upstream # Absent /\ ~IsAddress(d.upstream)

\* The document of a Dex, which builds its addresses from its issuer.
Document(issuer) ==
  LET at(path) == TrimmedEnd(issuer, {"/"}) \o <<"/", path>>
  IN  [issuer |-> issuer, authorization |-> at("auth"), token |-> at("token"), jwks |-> at("keys"),
       userinfo |-> at("userinfo")]

WellKnown == <<".well-known", "/", "openid-configuration">>

\* IssuerUrl::join
Join(address, path) == IF Last(address) = "/" THEN address \o path ELSE address \o <<"/">> \o path

\* A Dex answers what is under the path of its issuer.
DexAnswers(d, path) == IsUnder(TrimmedEnd(Tail(d.dex), {"/"}), path)

\* router, forward: the path as it came, after the upstream.
Forwarded(d, path) ==
  /\ d.upstream # Absent /\ IsUnder(<<"/", "dex">>, path)
  /\ LET target == TrimmedEnd(d.upstream, {"/"}) \o path
     IN  Head(target) = Inside /\ DexAnswers(d, Tail(target))

\* Whether the deployment's provider answers at an address: over the cluster,
\* through the front and this process once it listens, or at a host of its own.
Reaches(d, address, listening) ==
  LET path == Tail(address)
  IN  CASE Head(address) = Inside -> DexAnswers(d, path)
        [] Head(address) = Public ->
             listening /\ IsPrefix(d.base, path) /\ Forwarded(d, SubSeq(path, Len(d.base) + 1, Len(path)))
        [] OTHER -> Head(address) = Head(d.dex) /\ DexAnswers(d, path)

\* swap_prefix
SwapPrefix(endpoint, issuer, internal) ==
  IF IsPrefix(issuer, endpoint) THEN internal \o SubSeq(endpoint, Len(issuer) + 1, Len(endpoint)) ELSE endpoint

\* internalise
Internalised(document, issuer, internal) ==
  LET swapped(endpoint) == SwapPrefix(endpoint, TrimmedEnd(issuer, {"/"}), TrimmedEnd(internal, {"/"}))
  IN  [document EXCEPT !.token = swapped(@), !.jwks = swapped(@), !.userinfo = swapped(@)]

\* discover_internally, its document before the keys: what comes back, or Absent.
DiscoveredInside(d, internal) ==
  IF /\ Reaches(d, Join(internal, WellKnown), FALSE)
     /\ TrimmedEnd(d.dex, {"/"}) = TrimmedEnd(d.issuer, {"/"})
  THEN Internalised(Document(d.dex), d.issuer, internal)
  ELSE Absent

\* discover_async, of the openidconnect crate: the same over the issuer.
DiscoveredOutside(d) ==
  IF Reaches(d, Join(d.issuer, WellKnown), FALSE) /\ d.dex = d.issuer THEN Document(d.dex) ELSE Absent

\* Provider::discover, which serve calls before it binds: the metadata a process
\* runs with, or Absent when it does not come up.
Discovered(d) ==
  LET internal == InternalOf(d)
      document == IF internal = Absent THEN DiscoveredOutside(d) ELSE DiscoveredInside(d, internal)
  IN  IF \/ ~IsAddress(d.issuer) \/ ~IsAddress(d.redirect)
         \/ internal # Absent /\ ~IsAddress(internal)
      THEN Absent
      ELSE IF document = Absent \/ ProxyFails(d) THEN Absent
      ELSE IF Reaches(d, document.jwks, FALSE) THEN document ELSE Absent

(***************************************************************************)
(* Who a token says its bearer is.  A claim is a name or Absent, verified  *)
(* is TRUE, FALSE or Absent, groups a set of names.                        *)
(***************************************************************************)
\* principal_of
DisplayClaim(claims) ==
  IF claims.username # Absent THEN claims.username
  ELSE IF claims.name # Absent THEN claims.name ELSE claims.email

AliasesOf(claims) ==
  ({claims.username} \cup (IF claims.verified = TRUE THEN {claims.email} ELSE {})) \ {Absent}

\* Principal: new, with_aliases, with_groups, identifiers.
Vouched(subject, aliases, groups) == [subject |-> subject, identifiers |-> {subject} \cup aliases \cup groups]

PrincipalOf(claims) == Vouched(claims.subject, AliasesOf(claims), claims.groups)

DisplayName(claims) == IF DisplayClaim(claims) = Absent THEN claims.subject ELSE DisplayClaim(claims)

\* Config::role_warning
RoleWarning(roles, auth) == roles # {} /\ ~auth

\* Identity::of
IdentityOf(who, access, roles, auth, connectors) ==
  [authenticated |-> IsAuthenticated(who), roles |-> RoleNames(access), enforcing |-> roles # {},
   loginAvailable |-> auth, connectors |-> IF auth THEN connectors ELSE <<>>]

\* login, and start_login's check of its connector: "" is no connector asked for.
LoginStatus(connector, auth, connectors) ==
  CASE ~auth -> 404
    [] auth /\ connector # Absent /\ connector \notin ToSet(connectors) -> 400
    [] OTHER -> 303

(***************************************************************************)
(* The prefix a front takes off                                            *)
(***************************************************************************)
\* base_prefix
BasePrefix(text) ==
  LET trimmed == TrimmedAround(TrimmedAround(text, {" "}), {"/"})
  IN  IF trimmed = <<>> THEN <<>> ELSE <<"/">> \o trimmed

\* app_root
AppRoot(prefix) == prefix \o <<"/">>

Asset == <<"=\"", "/", "assets", "/">>
Base  == <<"<base href=\"">>

\* rebase: each reference to an asset, and an element after the first <head>.
Rebase(html, prefix) ==
  LET rewritten == FlattenSeq([i \in DOMAIN html |->
                     IF IsPrefix(Asset, SubSeq(html, i, Len(html))) THEN <<html[i]>> \o prefix ELSE <<html[i]>>])
      heads == {i \in DOMAIN rewritten : rewritten[i] = "<head>"}
      cut   == CHOOSE i \in heads : \A j \in heads : i <= j
  IN  IF heads = {} THEN rewritten
      ELSE SubSeq(rewritten, 1, cut) \o Base \o AppRoot(prefix) \o <<"\"">>
             \o SubSeq(rewritten, cut + 1, Len(rewritten))

\* inline_scripts: the bodies of the scripts whose tags have no src.
InlineScripts(html) ==
  FoldLeft(LAMBDA scan, token :
             CASE scan.at = "page" -> IF token = "<script" THEN [scan EXCEPT !.at = "tag", !.src = FALSE] ELSE scan
               [] scan.at = "tag" ->
                    IF token = ">" THEN [scan EXCEPT !.at = "body", !.body = <<>>]
                    ELSE [scan EXCEPT !.src = @ \/ token = " src"]
               [] scan.at = "body" ->
                    IF token # "</script>" THEN [scan EXCEPT !.body = Append(@, token)]
                    ELSE [scan EXCEPT !.at = "page", !.bodies = IF scan.src THEN @ ELSE Append(@, scan.body)],
           [at |-> "page", src |-> FALSE, body |-> <<>>, bodies |-> <<>>], html).bodies

IndexPage == <<<<"index", ".", "html">>>>

\* file: what is served of an embedded file, and how.
File(path, html, prefix) ==
  [ status |-> 200, immutable |-> Len(path) > 1 /\ Head(path) = <<"assets">>,
    scripts |-> IF path = IndexPage THEN InlineScripts(html) ELSE <<>>,
    body |-> IF path # IndexPage THEN path ELSE IF prefix = <<>> THEN html ELSE Rebase(html, prefix) ]

\* assets::serve, of the segments of a path; "." in a segment is its dot.
NotFound == [status |-> 404, immutable |-> FALSE, scripts |-> <<>>, body |-> <<>>]
AssetReply(path, files, html, prefix) ==
  LET api   == path # <<>> /\ Head(path) = <<"api">>
      named == path # <<>> /\ "." \in ToSet(Last(path))
  IN  CASE ~api /\ path \in files -> File(path, html, prefix)
        [] ~api /\ path \notin files /\ ~named /\ IndexPage \in files -> File(IndexPage, html, prefix)
        [] OTHER -> NotFound

\* detect and BASE_PATH: the href of the page's <base>, or the build's "/".
Detected(html) ==
  LET bases == {i \in DOMAIN html : html[i] = Head(Base)}
      first == CHOOSE i \in bases : \A j \in bases : i <= j
      ends  == {i \in DOMAIN html : i > first /\ html[i] = "\""}
  IN  IF bases = {} THEN <<"/">> ELSE SubSeq(html, first + 1, (CHOOSE i \in ends : \A j \in ends : i <= j) - 1)

BasePath(html) == TrimmedEnd(Detected(html), {"/"})

WithBase(html, path) == BasePath(html) \o path

(***************************************************************************)
(* The write guard.  A request is [method, header, origin, host,           *)
(* forwarded], the last three a host or Absent.                            *)
(***************************************************************************)
GuardPasses(request) ==
  \/ request.method \in {"GET", "HEAD", "OPTIONS"}
  \/ /\ request.header
     /\ request.origin = Absent \/ request.origin \in {request.host, request.forwarded}

\* post, as it arrives behind a front that keeps the host, tells it, or neither.
OwnWrite(host, keeps, tells) ==
  [method |-> "POST", header |-> TRUE, origin |-> host, host |-> IF keeps THEN host ELSE Absent,
   forwarded |-> IF tells THEN host ELSE Absent]

(***************************************************************************)
(* What it promises                                                        *)
(***************************************************************************)
\* A process that is up dials its provider without going through itself, and the
\* browser's hop stays on the name it is on: no token, key set or userinfo request
\* waits for a listener that is not there, the provider is the one configured, the
\* authorization address is reached through the proxy, and a deployment that
\* proxies its Dex always comes up.
LoginStaysInside(d) ==
  LET document == Discovered(d)
      proxied  == d.upstream # Absent /\ IsAddress(d.upstream) /\ TrimmedEnd(d.upstream, {"/"}) = <<Inside>>
      same     == TrimmedEnd(d.dex, {"/"}) = TrimmedEnd(d.issuer, {"/"})
  IN  /\ document # Absent =>
           /\ same
           /\ \A address \in {document.token, document.jwks, document.userinfo} : Reaches(d, address, FALSE)
           /\ Head(document.authorization) = Head(d.issuer)
           /\ (/\ proxied /\ d.base = <<>>
               /\ Head(d.issuer) = Public /\ IsUnder(<<"/", "dex">>, TrimmedEnd(Tail(d.issuer), {"/"})))
              => Reaches(d, document.authorization, TRUE)
      /\ (proxied /\ same /\ d.internal = Absent /\ IsAddress(d.issuer) /\ IsAddress(d.redirect))
         => document # Absent

\* A name grants only when somebody vouched for it: an address nobody verified and
\* the name that is shown grant what their absence grants, whatever a role says,
\* and there is always something to show.
NamesAreVouchedFor(claims, role) ==
  LET applies(more) == Applies(role, PrincipalOf(more))
  IN  /\ claims.verified # TRUE => (applies(claims) <=> applies([claims EXCEPT !.email = Absent]))
      /\ applies(claims) <=> applies([claims EXCEPT !.name = Absent])
      /\ applies(claims) => applies([claims EXCEPT !.verified = TRUE])
      /\ DisplayName(claims) # Absent

\* Nobody is left before an empty fleet without a word: whoever has not signed in
\* and sees nothing is offered to, or the start-up warned; what is offered, and
\* nothing else, is answered with a login; and where the start-up warned, only a
\* role that names the anonymous caller shows anything.
SignInIsOffered(roles, auth, connectors, asked, cluster) ==
  LET access   == AccessOf(roles, roles # {}, Anonymous)
      identity == IdentityOf(Anonymous, access, roles, auth, connectors)
  IN  /\ ~Sees(access, cluster) => identity.loginAvailable \/ RoleWarning(roles, auth)
                                   \/ \E role \in roles : Applies(role, Anonymous)
      /\ identity.loginAvailable \/ identity.connectors = <<>>
      /\ \A connector \in {asked, Absent} :
           LoginStatus(connector, auth, connectors) = 303
             <=> identity.loginAvailable /\ connector \in ToSet(identity.connectors) \cup {Absent}
      /\ (RoleWarning(roles, auth) /\ \A role \in roles : Nobody \notin role.subjects) => ~Sees(access, cluster)

\* Whatever spelling of its mount it is given, the page asks the front for what
\* the front takes back to the path that was meant, with no empty segment on the
\* way, and its policy names the inline scripts it has, after the rewrite as
\* before.  The original is [html, scripts].
LinksKeepTheirPrefix(text, mount, original, path) ==
  LET prefix == BasePrefix(text)
      page   == AssetReply(<<>>, {IndexPage}, original.html, prefix)
      links  == {WithBase(page.body, path), AppRoot(prefix), AppRoot(BasePath(page.body))}
                \cup {SubSeq(page.body, i + 1, i + 3 + Len(prefix)) : i \in {j \in DOMAIN page.body : page.body[j] = "=\""}}
  IN  /\ \A link \in links :
           /\ IsPrefix(mount \o <<"/">>, link)
           /\ SubSeq(link, Len(mount) + 1, Len(link)) \in {path, <<"/">>, Tail(Asset)}
           /\ \A i \in 1 .. Len(link) - 1 : ~(link[i] = "/" /\ link[i + 1] = "/")
      /\ InlineScripts(page.body) = page.scripts /\ page.scripts = original.scripts

\* A last segment with a dot in it, as a file has, and as topics have.
LooksLikeFile(path) == path # <<>> /\ "." \in ToSet(Last(path))

\* A path is answered with its file; an endpoint or a part of the bundle that is
\* missing is an error and never a page; every other address is a deep link that
\* survives a refresh (assets.rs:29, router.tsx:358), except where it
\* LooksLikeFile, of which this says nothing; and the page that names the
\* current bundle is never kept.
AssetsAreAnswered(path, files, html) ==
  LET reply   == AssetReply(path, files, html, <<>>)
      missing == path # <<>> /\ path \notin files
      under(segment) == path # <<>> /\ Head(path) = segment
  IN  /\ reply.body = html => ~reply.immutable
      /\ under(<<"api">>) => reply.status = 404
      /\ reply.status = 200 => reply.body \in {path, html}
      /\ missing /\ under(<<"assets">>) /\ LooksLikeFile(path) => reply.status = 404
      /\ (IndexPage \in files /\ path \notin files /\ ~under(<<"api">>) /\ ~LooksLikeFile(path))
           => reply.body = html

\* The page's own writes are let through where the front keeps or tells the host
\* that the browser knows, and a write from elsewhere never is.
OwnWritesPass(host, other, keeps, tells) ==
  LET request == OwnWrite(host, keeps, tells)
  IN  /\ GuardPasses(request) <=> keeps \/ tells
      /\ ~GuardPasses([request EXCEPT !.origin = other])
      /\ ~GuardPasses([request EXCEPT !.header = FALSE])
=============================================================================
