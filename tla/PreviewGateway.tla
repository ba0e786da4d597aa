--------------------------- MODULE PreviewGateway ---------------------------
(***************************************************************************)
(* The preview gateway: requests of visitors to published previews, looked *)
(* up in the repository, resolved at the sandbox provider, proxied to the  *)
(* generated application and sent back with its links rewritten, while     *)
(* sandboxes pause, resume and end, the provider fails and the gateway is  *)
(* redeployed with another public address.                                 *)
(*                                                                         *)
(* A path is a sequence of segments.  A run has one verification sandbox   *)
(* and carries its name, as in the preview URL.                            *)
(***************************************************************************)
EXTENDS Integers, Sequences, FiniteSets, SequencesExt

CONSTANTS Runs,        \* runs, named like their verification sandboxes
          Visitors,
          Prefix,      \* path of PUBLIC_PREVIEW_BASE_URL, a sequence
          NextAssets,  \* the segment "_next"
          Segments,    \* other segments of the applications' paths
          MaxFaults,   \* failures of the provider and the network
          MaxDeploys,  \* redeployments of the gateway
          None

ASSUME PreviewGatewayAssumption ==
    /\ Prefix \in Seq(Segments)
    /\ NextAssets \notin Segments \cup Runs
    /\ {MaxFaults, MaxDeploys} \subseteq Nat
    /\ None \notin Nat  \* no reply is none of the status codes

VARIABLES
    mode,     \* PreviewGatewayConfig: "host" (base_domain) or "path" (base_url)
    run,      \* run row, resource row and routing event of every run
    sandbox,  \* its sandbox at the provider
    visit,    \* what every visitor's request has come to
    steady,   \* history: the requests whose sandbox has been Running ever since
              \* they were looked up
    faults, deploys

vars == <<mode, run, sandbox, visit, steady, faults, deploys>>

Modes == {"host", "path"}

(* The provider's states: Running; Pausing, Paused, Resuming and any other *)
(* in which the sandbox is alive; Terminating and Terminated; not found.   *)
SandboxStates == {"running", "paused", "stopping", "gone"}

NoVisit ==
    [pc |-> "idle", run |-> None,
     path |-> <<>>,       \* public path of the request
     meant |-> None,      \* the path the application's link was for
     upstream |-> <<>>,   \* path the application is asked for
     basePath |-> FALSE,  \* target.uses_base_path
     reply |-> None, link |-> None]

Init ==
    /\ mode \in Modes
    /\ run = [r \in Runs |-> [status |-> "running", url |-> None, cleaned |-> FALSE,
                              basePath |-> FALSE, expiries |-> 0]]
    /\ sandbox = [r \in Runs |-> [state |-> "running", exposed |-> TRUE]]
    /\ visit = [v \in Visitors |-> NoVisit]
    /\ steady = {}
    /\ faults = 0 /\ deploys = 0

-----------------------------------------------------------------------------
(* Paths, links and their rewriting.                                       *)

(* What applications link to: their root, a page, a page that is named like*)
(* the preview itself, and an asset of the build.                          *)
Root(r) == Prefix \o <<r>>

Pages(r) == {<<>>, Root(r)} \cup {<<s>> : s \in Segments}

Assets == {<<NextAssets>>}

Within(r, path) == IsPrefix(Root(r), path)

Stripped(r, path) == SubSeq(path, Len(Root(r)) + 1, Len(path))

(* published_preview_base_path: the base path baked into a build.          *)
BasePathOf(r) == IF run[r].basePath THEN Root(r) ELSE <<>>

(* proxy_host, proxy_path and the base path branch of proxy_verified: the  *)
(* path the application is asked for.                                      *)
UpstreamPath(r, path, basePath) ==
    IF mode = "host" \/ basePath THEN path ELSE Stripped(r, path)

MutantPrefixKept(r, path, basePath) ==
    IF Within(r, path) THEN path ELSE Root(r) \o path

(* _rewrite_path_location of an internal redirect: a build that knows its  *)
(* base path has already put it in front.                                  *)
PublicPath(r, path, basePath) ==
    IF basePath /\ Within(r, path) THEN path ELSE Root(r) \o path

(* _rewrite_path_location and _rewrite_location: only redirects to the     *)
(* endpoint are internal.  In path mode all others lose their location, in *)
(* host mode they stay as they are.                                        *)
RewrittenLocation(r, location, basePath) ==
    CASE mode = "path" /\ location.host = "endpoint" ->
             [host |-> "public", path |-> PublicPath(r, location.path, basePath)]
      [] mode = "path" /\ location.host # "endpoint" -> None
      [] mode = "host" /\ location.host = "endpoint" ->
             [host |-> "public", path |-> location.path]
      [] OTHER -> location

MutantAssetAsIs(r, path) == [host |-> "public", path |-> path]

(* _rewrite_legacy_next_assets: in an HTML page, /_next/ gets the prefix.  *)
RewrittenAsset(r, path) ==
    [host |-> "public",
     path |-> IF mode = "path" /\ Head(path) = NextAssets THEN Root(r) \o path ELSE path]

-----------------------------------------------------------------------------
(* Helpers.                                                                *)

At(v, pc) == visit[v].pc = pc

Continue(v, pc) == visit' = [visit EXCEPT ![v].pc = pc]

Reply(v, code) == visit' = [visit EXCEPT ![v].pc = "replied", ![v].reply = code]

Fault == faults < MaxFaults /\ faults' = faults + 1

(* The URL of a preview names the mode it was published in.                *)
PublicUrl(r) == <<mode, r>>

(* The retained verification sandbox of a published run.                   *)
IsVerifiedTarget(r) ==
    run[r].status = "succeeded" /\ run[r].url # None /\ ~run[r].cleaned

-----------------------------------------------------------------------------
(* Publication and the sandboxes.                                          *)

(* _publish: only a running sandbox is renewed.  In path mode the build    *)
(* knows its base path, unless it is older than base paths.                *)
Publish(r) ==
    /\ run[r].status = "running"
    /\ sandbox[r].state = "running"
    /\ \E basePath \in {mode = "path", FALSE} :
           run' = [run EXCEPT ![r].status = "succeeded", ![r].url = PublicUrl(r),
                              ![r].basePath = basePath]
    /\ UNCHANGED <<mode, sandbox, visit, steady, faults, deploys>>

(* The sandbox leaves Running under every request that is on its way to it.*)
Interrupted(r) == steady' = {v \in steady : visit[v].run # r}

(* Its lifetime is over, or somebody killed it.                            *)
SandboxStops(r) ==
    /\ sandbox[r].state \in {"running", "paused"}
    /\ sandbox' = [sandbox EXCEPT ![r] = [state |-> "stopping", exposed |-> FALSE]]
    /\ Interrupted(r)
    /\ UNCHANGED <<mode, run, visit, faults, deploys>>

SandboxIsGone(r) ==
    /\ sandbox[r].state = "stopping"
    /\ sandbox' = [sandbox EXCEPT ![r].state = "gone"]
    /\ UNCHANGED <<mode, run, visit, steady, faults, deploys>>

(* pause_resume: a paused sandbox is alive and can be resumed.  Whether its*)
(* endpoint is found meanwhile is the provider's choice.                   *)
SandboxPauses(r) ==
    /\ sandbox[r].state = "running"
    /\ \E exposed \in BOOLEAN :
           sandbox' = [sandbox EXCEPT ![r] = [state |-> "paused", exposed |-> exposed]]
    /\ Interrupted(r)
    /\ UNCHANGED <<mode, run, visit, faults, deploys>>

SandboxResumes(r) ==
    /\ sandbox[r].state = "paused"
    /\ sandbox' = [sandbox EXCEPT ![r] = [state |-> "running", exposed |-> TRUE]]
    /\ UNCHANGED <<mode, run, visit, steady, faults, deploys>>

(* The provider may not find the endpoint of a running sandbox for a while.*)
EndpointFlaps(r) ==
    /\ sandbox[r].state = "running"
    /\ \/ Fault /\ sandbox[r].exposed
       \/ ~sandbox[r].exposed /\ UNCHANGED faults
    /\ sandbox' = [sandbox EXCEPT ![r].exposed = ~@]
    /\ UNCHANGED <<mode, run, visit, steady, deploys>>

(* Requests in flight end with the gateway's process.                      *)
Redeploy ==
    /\ deploys < MaxDeploys
    /\ deploys' = deploys + 1
    /\ mode' \in Modes \ {mode}
    /\ visit' = [v \in Visitors |-> NoVisit]
    /\ steady' = {}
    /\ UNCHANGED <<run, sandbox, faults>>

-----------------------------------------------------------------------------
(* A request.                                                              *)

(* A visitor opens a preview at one of its pages, by its published URL.    *)
Open(v, r) ==
    /\ At(v, "idle")
    /\ \E page \in Pages(r) :
           LET path == IF mode = "path" THEN Root(r) \o page ELSE page
           IN  visit' = [visit EXCEPT ![v] = [NoVisit EXCEPT !.pc = "lookup", !.run = r,
                                                             !.path = path]]
    /\ UNCHANGED <<mode, run, sandbox, steady, faults, deploys>>

(* The browser follows a redirect or loads an asset.                       *)
Follow(v) ==
    /\ At(v, "replied")
    /\ visit[v].link # None
    /\ visit[v].link.host = "public"
    /\ visit' = [visit EXCEPT ![v] = [NoVisit EXCEPT !.pc = "lookup", !.run = visit[v].run,
                                                     !.path = visit[v].link.path,
                                                     !.meant = visit[v].meant]]
    /\ UNCHANGED <<mode, run, sandbox, steady, faults, deploys>>

Leave(v) ==
    /\ At(v, "replied")
    /\ visit' = [visit EXCEPT ![v] = NoVisit]
    /\ UNCHANGED <<mode, run, sandbox, steady, faults, deploys>>

(* The route and require_verified_preview_target, with the URL compared.   *)
Lookup(v) ==
    LET r == visit[v].run
        path == visit[v].path
        known == /\ mode = "path" => Within(r, path)
                 /\ IsVerifiedTarget(r)
                 /\ run[r].url = PublicUrl(r)
    IN  /\ At(v, "lookup")
        /\ IF known
           THEN visit' = [visit EXCEPT
                             ![v].pc = "body", ![v].basePath = run[r].basePath,
                             ![v].upstream = UpstreamPath(r, path, run[r].basePath)]
           ELSE Reply(v, 404)
        /\ steady' = IF sandbox[r].state = "running" THEN steady \cup {v} ELSE steady \ {v}
        /\ UNCHANGED <<mode, run, sandbox, faults, deploys>>

(* The request's body is read in full before the sandbox is looked for.    *)
ReadBody(v) ==
    /\ At(v, "body")
    /\ Continue(v, "resolve") \/ Reply(v, 413)
    /\ UNCHANGED <<mode, run, sandbox, steady, faults, deploys>>

MutantUnexposedIsExpired(v) ==
    \/ Fault /\ Reply(v, 502)
    \/ UNCHANGED faults /\ Continue(v, "expire")

(* _sandbox_is_expired, after a 404 for the endpoint alone: every state but*)
(* Running is taken for the end, Paused too.                               *)
SandboxLookup(v) ==
    \/ Fault /\ Reply(v, 502)
    \/ /\ UNCHANGED faults
       /\ IF sandbox[visit[v].run].state = "running"
          THEN Reply(v, 502)
          ELSE Continue(v, "expire")

(* OpenSandboxEndpointResolver.resolve                                     *)
Resolve(v) ==
    LET box == sandbox[visit[v].run]
    IN  /\ At(v, "resolve")
        /\ \/ Fault /\ Reply(v, 502)
           \/ /\ UNCHANGED faults
              /\ \/ box.state = "gone" /\ Continue(v, "expire")
                 \/ ~box.exposed /\ Continue(v, "sandbox")
                 \/ box.exposed /\ Continue(v, "proxy")
        /\ UNCHANGED <<mode, run, sandbox, steady, deploys>>

ResolveSandbox(v) ==
    /\ At(v, "sandbox")
    /\ SandboxLookup(v)
    /\ UNCHANGED <<mode, run, sandbox, steady, deploys>>

(* The rows are read again under a lock, for the URL the request came by.  *)
MayExpire(r) == IsVerifiedTarget(r) /\ run[r].url = PublicUrl(r)

(* expire_verified_preview_target: URL, resource and event in one commit.  *)
Expire(v) ==
    LET r == visit[v].run
    IN  /\ At(v, "expire")
        /\ run' = IF MayExpire(r)
                  THEN [run EXCEPT ![r].url = None, ![r].cleaned = TRUE, ![r].expiries = @ + 1]
                  ELSE run
        /\ Reply(v, 410)
        /\ UNCHANGED <<mode, sandbox, steady, faults, deploys>>

Answer(v, code, meant, link) ==
    visit' = [visit EXCEPT ![v].pc = "replied", ![v].reply = code,
                           ![v].meant = meant, ![v].link = link]

(* The application answers with a redirect to one of its pages, by the     *)
(* endpoint's or the public address, or to another site; or with a page    *)
(* that loads an asset.  It may also be gone or say too much.              *)
Proxy(v) ==
    LET r == visit[v].run
        base == BasePathOf(r)
    IN  /\ At(v, "proxy")
        /\ \/ /\ sandbox[r].state = "running"
              /\ \/ \E page \in Pages(r), host \in {"endpoint", "public", "elsewhere"} :
                        LET location == [host |-> host, path |-> base \o page]
                        IN  Answer(v, 307, location.path,
                                   RewrittenLocation(r, location, visit[v].basePath))
                 \/ \E asset \in Assets :
                        Answer(v, 200, base \o asset, RewrittenAsset(r, base \o asset))
                 \/ Reply(v, 502)
              /\ UNCHANGED faults
           \/ /\ sandbox[r].state # "running"
              /\ Reply(v, 502)
              /\ UNCHANGED faults
           \/ Fault /\ Reply(v, 502)
        /\ UNCHANGED <<mode, run, sandbox, steady, deploys>>

Next ==
    \/ \E r \in Runs :
           \/ Publish(r) \/ EndpointFlaps(r)
           \/ SandboxStops(r) \/ SandboxIsGone(r) \/ SandboxPauses(r) \/ SandboxResumes(r)
    \/ \E v \in Visitors :
           \/ \E r \in Runs : Open(v, r)
           \/ Follow(v) \/ Leave(v)
           \/ Lookup(v) \/ ReadBody(v) \/ Resolve(v) \/ ResolveSandbox(v)
           \/ Expire(v) \/ Proxy(v)
    \/ Redeploy

Spec == Init /\ [][Next]_vars

-----------------------------------------------------------------------------
(* Properties.                                                             *)

GatewayTypeOK ==
    /\ mode \in Modes
    /\ \A r \in Runs :
           /\ run[r].status \in {"running", "succeeded"}
           /\ run[r].url \in {None} \cup (Modes \X {r})
           /\ sandbox[r].state \in SandboxStates
    /\ \A v \in Visitors :
           /\ visit[v].run \in Runs \cup {None}
           /\ visit[v].reply \in {None, 200, 307, 404, 410, 413, 502}
           /\ visit[v].link # None => visit[v].link.host \in {"public", "elsewhere"}
    /\ steady \subseteq Visitors
    /\ faults \in 0 .. MaxFaults /\ deploys \in 0 .. MaxDeploys

(* expire_verified_preview_target: however many visitors notice the end of *)
(* a preview, it expires once.                                             *)
ExpiredOnce == \A r \in Runs : run[r].expiries <= 1

(* A visitor who is told that a preview has expired will not be shown it by*)
(* the workbench afterwards, and its sandbox really left Running during the*)
(* request: an outage of the provider, an endpoint that is not found for a *)
(* while or an answer of an earlier request is never taken for the end.    *)
ToldExpiredIsExpired ==
    \A v \in Visitors :
        visit[v].reply = 410 => run[visit[v].run].url = None /\ v \notin steady

(* The durable URL is only ever removed by such a request.                 *)
UrlIsRemovedForCause ==
    \A r \in Runs :
        run[r].url # None /\ run'[r].url = None =>
            \E v \in Visitors :
                visit[v].run = r /\ visit'[v].reply = 410 /\ v \notin steady

(* A preview expires once, for everybody, and only on what the provider    *)
(* said of this very sandbox since the request came in, although two       *)
(* lookups, a pause, an outage and other visitors lie between (preview_    *)
(* gateway.py 547-591).  Whether a sandbox that is not Running is over is  *)
(* another question: LivePreviewIsKept.                                    *)
ExpiryIsHonest ==
    /\ [](GatewayTypeOK /\ ExpiredOnce /\ ToldExpiredIsExpired)
    /\ [][UrlIsRemovedForCause]_vars

(* README.md:280: the durable URL is removed only after an authoritative   *)
(* 404 or 410; a test (test_preview_gateway.py:743) grants Terminated.  It *)
(* is violated: a paused sandbox answers 200 and may be resumed, but it is *)
(* taken for the end.                                                      *)
LivePreviewIsKept ==
    \A r \in Runs : run[r].cleaned => sandbox[r].state \in {"stopping", "gone"}

(* A redirect to the application's own endpoint and an asset of its pages, *)
(* followed through the gateway, are found at the lookup and reach the path*)
(* the application meant, in either mode and for builds with and without a *)
(* base path; they are answered 404 only when the preview is no longer     *)
(* published at this address.                                              *)
LinksArrive ==
    \A v \in Visitors :
        LET x == visit[v]
        IN  x.meant # None =>
                /\ x.pc = "lookup" =>
                      /\ mode = "path" => Within(x.run, x.path)
                      /\ UpstreamPath(x.run, x.path, run[x.run].basePath) = x.meant
                /\ x.pc \in {"body", "resolve", "proxy"} => x.upstream = x.meant
                /\ x.reply = 404 =>
                      ~(IsVerifiedTarget(x.run) /\ run[x.run].url = PublicUrl(x.run))
=============================================================================
