------------------------ MODULE PreviewGateway_proofs ------------------------
(***************************************************************************)
(* Proofs about the preview gateway, for every number of visitors and      *)
(* runs, every public address, every site and every number of redeploys:   *)
(* a preview expires once, for everybody, and only on what the provider    *)
(* said of its sandbox during the request; and the links of an application,*)
(* rewritten on their way out, are found and reach the path it meant when  *)
(* they come in again.                                                     *)
(***************************************************************************)
EXTENDS PreviewGateway, SequenceTheorems, TLAPS

-----------------------------------------------------------------------------
(* The inductive invariant, in parts.                                      *)

Names == Segments \cup Runs \cup {NextAssets}
Paths == Seq(Names)

Flags == BOOLEAN
Counts == Nat

Links == [host : {"public", "elsewhere"}, path : Paths]

(* From the lookup on, the request knows the target it was admitted for.   *)
Admitted == {"body", "resolve", "sandbox", "expire", "proxy"}

Replies == {None, 200, 307, 404, 410, 413, 502}

Visits ==
    [pc : {"idle", "lookup", "replied"} \cup Admitted, run : Runs \cup {None},
     path : Paths, meant : Paths \cup {None}, upstream : Paths, basePath : Flags,
     reply : Replies, link : Links \cup {None}]

Rows ==
    [status : {"running", "succeeded"}, url : {None} \cup (Modes \X Runs),
     cleaned : Flags, basePath : Flags, expiries : Counts]

Boxes == [state : SandboxStates, exposed : BOOLEAN]

GatewayTypes ==
    /\ mode \in Modes
    /\ run \in [Runs -> Rows]
    /\ sandbox \in [Runs -> Boxes]
    /\ visit \in [Visitors -> Visits]
    /\ steady \subseteq Visitors
    /\ faults \in 0 .. MaxFaults /\ deploys \in 0 .. MaxDeploys

(* What the rows of a run agree on: the flag, the count and the URL change *)
(* together.                                                               *)
RowOf(r) ==
    /\ run[r].url \in {None} \cup (Modes \X {r})
    /\ run[r].status = "running" => ~run[r].cleaned /\ run[r].url = None
    /\ run[r].cleaned => run[r].url = None
    /\ run[r].expiries = IF run[r].cleaned THEN 1 ELSE 0

(* This public path is found, and the application would be asked for the   *)
(* path its link was for.                                                  *)
Reaches(r, path, meant) ==
    /\ run[r].status = "succeeded"
    /\ mode = "path" => Within(r, path)
    /\ UpstreamPath(r, path, run[r].basePath) = meant

IsWithdrawn(r) == run[r].url = None \/ run[r].url # PublicUrl(r)

(* What a request relies on in each of its phases: only what was read      *)
(* before and cannot change behind its back.                               *)
VisitOf(v) ==
    LET x == visit[v]
    IN  /\ x.pc # "idle" => x.run \in Runs
        /\ x.pc \in Admitted =>
              /\ run[x.run].status = "succeeded"
              /\ run[x.run].url \in {None, PublicUrl(x.run)}
              /\ x.basePath = run[x.run].basePath
              /\ x.meant # None => x.upstream = x.meant
              /\ sandbox[x.run].state # "running" => v \notin steady
        /\ x.pc = "expire" => v \notin steady
        /\ x.pc # "replied" => x.reply = None /\ x.link = None
        /\ x.reply = 410 => /\ run[x.run].status = "succeeded" /\ run[x.run].url = None
                            /\ v \notin steady
        /\ x.reply = 404 /\ x.meant # None =>
              run[x.run].status = "succeeded" /\ IsWithdrawn(x.run)
        /\ x.pc = "lookup" /\ x.meant # None => Reaches(x.run, x.path, x.meant)
        /\ x.link # None /\ x.link.host = "public" => Reaches(x.run, x.link.path, x.meant)

RowInv == \A r \in Runs : RowOf(r)
VisitInv == \A v \in Visitors : VisitOf(v)

GatewayIInv == GatewayTypes /\ RowInv /\ VisitInv

-----------------------------------------------------------------------------
(* Paths.                                                                  *)

LEMMA RootIsAPath ==
    ASSUME NEW r \in Runs
    PROVE  /\ Root(r) \in Paths
           /\ Len(Root(r)) = Len(Prefix) + 1 /\ Len(Prefix) \in Nat
           /\ Root(r) # <<>> /\ Root(r)[1] # NextAssets
<1>1. Prefix \in Seq(Segments) /\ <<r>> \in Seq(Runs)
    BY PreviewGatewayAssumption
<1>2. Prefix \in Paths /\ <<r>> \in Paths /\ Len(Prefix) \in Nat /\ Len(<<r>>) = 1
    BY <1>1 DEF Paths, Names
<1>3. /\ Root(r) \in Paths /\ Len(Root(r)) = Len(Prefix) + 1
      /\ Root(r)[1] = IF 1 <= Len(Prefix) THEN Prefix[1] ELSE <<r>>[1 - Len(Prefix)]
    BY <1>2, ConcatProperties DEF Root, Paths
<1>4. Root(r)[1] # NextAssets
    <2>1. CASE Len(Prefix) = 0
        BY <2>1, <1>3, PreviewGatewayAssumption
    <2>2. CASE Len(Prefix) # 0
        <3>1. Prefix[1] \in Segments
            BY <2>2, <1>1, <1>2, ElementOfSeq
        <3> QED  BY <3>1, <2>2, <1>3, <1>2, PreviewGatewayAssumption
    <2> QED  BY <2>1, <2>2
<1> QED  BY <1>2, <1>3, <1>4

LEMMA SiteIsOfPaths ==
    ASSUME NEW r \in Runs
    PROVE  Pages(r) \cup Assets \subseteq Paths
<1>1. \A s \in Names : <<s>> \in Paths
    BY DEF Paths
<1>2. <<>> \in Paths
    BY DEF Paths
<1> QED  BY <1>1, <1>2, RootIsAPath DEF Pages, Assets, Names

(* What is put in front of a path on its way out is what is taken away when*)
(* it comes in.                                                            *)
LEMMA RootComesOff ==
    ASSUME NEW r \in Runs, NEW path \in Paths
    PROVE  /\ Root(r) \o path \in Paths
           /\ Within(r, Root(r) \o path) /\ Within(r, Root(r))
           /\ Stripped(r, Root(r) \o path) = path
           /\ <<>> \o path = path
           /\ Root(r) \o path # <<>> /\ Head(Root(r) \o path) # NextAssets
<1> DEFINE n == Len(Root(r))
           whole == Root(r) \o path
<1>1. Root(r) \in Seq(Names) /\ path \in Seq(Names) /\ n \in Nat \ {0} /\ Len(path) \in Nat
    BY RootIsAPath DEF Paths
<1>2. /\ whole \in Seq(Names) /\ Len(whole) = n + Len(path)
      /\ \A i \in 1 .. n + Len(path) : whole[i] = IF i <= n THEN Root(r)[i] ELSE path[i - n]
    BY <1>1, ConcatProperties
<1>3. SubSeq(whole, 1, n) = SubSeq(Root(r), 1, n)
    BY <1>1, SubSeqOfConcat1
<1>4. Within(r, whole) /\ Within(r, Root(r))
    BY <1>1, <1>2, <1>3 DEF Within, IsPrefix
<1>5. Stripped(r, whole) = path
    <2> DEFINE first == n + 1
               last == n + Len(path)
               rest == SubSeq(whole, first, last)
    <2>1. /\ first \in Int /\ last \in Int
          /\ \A i \in first .. last : whole[i] \in Names
        <3>1. \A i \in first .. last : i \in 1 .. Len(whole)
            BY <1>1, <1>2
        <3> QED  BY <3>1, <1>1, <1>2, ElementOfSeq
    <2>2. /\ rest \in Seq(Names)
          /\ Len(rest) = IF first <= last THEN last - first + 1 ELSE 0
          /\ \A i \in 1 .. last - first + 1 : rest[i] = whole[first + i - 1]
        <3> HIDE DEF whole, n, first, last
        <3> QED  BY <2>1, SubSeqProperties
    <2>3. Len(rest) = Len(path) /\ \A i \in 1 .. Len(path) : rest[i] = path[i]
        BY <2>2, <1>1, <1>2
    <2>4. rest = path
        BY <2>2, <2>3, <1>1, SeqEqual
    <2> QED  BY <2>4, <1>2 DEF Stripped
<1>6. <<>> \o path = path
    BY <1>1, ConcatEmptySeq
<1>7. whole # <<>> /\ Head(whole) = Root(r)[1]
    BY <1>1, <1>2
<1> QED  BY <1>1, <1>2, <1>4, <1>5, <1>6, <1>7, RootIsAPath DEF Paths

(* A link, rewritten for the public, is found and leads to the path meant. *)
Leads(r, link, meant) ==
    /\ link \in Links \cup {None}
    /\ link # None /\ link.host = "public" =>
          /\ mode = "path" => Within(r, link.path)
          /\ UpstreamPath(r, link.path, run[r].basePath) = meant

LEMMA BaseIsAPath ==
    ASSUME NEW r \in Runs, run[r].basePath \in BOOLEAN
    PROVE  /\ run[r].basePath => BasePathOf(r) = Root(r)
           /\ ~run[r].basePath => BasePathOf(r) = <<>>
           /\ BasePathOf(r) \in Paths
BY RootIsAPath DEF BasePathOf, Paths

LEMMA RewrittenLocationLeads ==
    ASSUME mode \in Modes, NEW r \in Runs, run[r].basePath \in BOOLEAN,
           NEW page \in Pages(r), NEW host \in {"endpoint", "public", "elsewhere"},
           NEW path, path = BasePathOf(r) \o page
    PROVE  /\ path \in Paths
           /\ Leads(r, RewrittenLocation(r, [host |-> host, path |-> path], run[r].basePath), path)
<1> DEFINE location == [host |-> host, path |-> path]
           link == RewrittenLocation(r, location, run[r].basePath)
<1>0. page \in Paths
    BY SiteIsOfPaths
<1>1. /\ run[r].basePath => path = Root(r) \o page
      /\ ~run[r].basePath => path = page
      /\ path \in Paths
    BY <1>0, BaseIsAPath, RootComesOff
<1>2. location.host = host /\ location.path = path
    OBVIOUS
<1>3. ASSUME mode = "path", host = "endpoint"
      PROVE  Leads(r, link, path)
    <2>1. link = [host |-> "public", path |-> PublicPath(r, path, run[r].basePath)]
        BY <1>3, <1>2 DEF RewrittenLocation
    <2>2. CASE run[r].basePath
        <3>1. Within(r, path) /\ PublicPath(r, path, run[r].basePath) = path
            BY <2>2, <1>0, <1>1, RootComesOff DEF PublicPath
        <3> HIDE DEF link
        <3>2. link \in Links /\ link.path = path
            BY <3>1, <2>1, <1>1 DEF Links
        <3> QED  BY <3>1, <3>2, <2>2 DEF Leads, UpstreamPath
    <2>3. CASE ~run[r].basePath
        <3>1. /\ PublicPath(r, path, run[r].basePath) = Root(r) \o path
              /\ Root(r) \o path \in Paths
              /\ Stripped(r, Root(r) \o path) = path /\ Within(r, Root(r) \o path)
            BY <2>3, <1>1, RootComesOff DEF PublicPath
        <3> HIDE DEF link
        <3>2. link \in Links /\ link.path = Root(r) \o path
            BY <3>1, <2>1 DEF Links
        <3> QED  BY <3>1, <3>2, <2>3, <1>3 DEF Leads, UpstreamPath
    <2> QED  BY <2>2, <2>3
<1>4. ASSUME mode = "path", host # "endpoint"
      PROVE  Leads(r, link, path)
    BY <1>4, <1>2 DEF RewrittenLocation, Leads
<1>5. ASSUME mode = "host", host = "endpoint"
      PROVE  Leads(r, link, path)
    <2>1. link = [host |-> "public", path |-> path]
        BY <1>5, <1>2 DEF RewrittenLocation
    <2> HIDE DEF link
    <2> QED  BY <2>1, <1>1, <1>5 DEF Links, Leads, UpstreamPath
<1>6. ASSUME mode = "host", host # "endpoint"
      PROVE  Leads(r, link, path)
    <2>1. link = [host |-> host, path |-> path]
        BY <1>6, <1>2 DEF RewrittenLocation
    <2> HIDE DEF link
    <2> QED  BY <2>1, <1>1, <1>6 DEF Links, Leads, UpstreamPath
<1> QED  BY <1>1, <1>3, <1>4, <1>5, <1>6 DEF Modes

LEMMA RewrittenAssetLeads ==
    ASSUME mode \in Modes, NEW r \in Runs, run[r].basePath \in BOOLEAN,
           NEW asset \in Assets, NEW path, path = BasePathOf(r) \o asset
    PROVE  path \in Paths /\ Leads(r, RewrittenAsset(r, path), path)
<1> DEFINE link == RewrittenAsset(r, path)
<1>0. asset \in Paths /\ Head(asset) = NextAssets
    BY SiteIsOfPaths DEF Assets
<1>1. /\ run[r].basePath => path = Root(r) \o asset
      /\ ~run[r].basePath => path = asset
      /\ path \in Paths
    BY <1>0, BaseIsAPath, RootComesOff
<1>2. ASSUME mode = "path", ~run[r].basePath
      PROVE  Leads(r, link, path)
    <2>1. /\ link = [host |-> "public", path |-> Root(r) \o path]
          /\ Root(r) \o path \in Paths
          /\ Stripped(r, Root(r) \o path) = path /\ Within(r, Root(r) \o path)
        BY <1>0, <1>1, <1>2, RootComesOff DEF RewrittenAsset
    <2> HIDE DEF link
    <2>2. link \in Links /\ link.path = Root(r) \o path
        BY <2>1 DEF Links
    <2> QED  BY <2>1, <2>2, <1>1, <1>2 DEF Leads, UpstreamPath
<1>3. ASSUME mode = "host" \/ run[r].basePath
      PROVE  Leads(r, link, path)
    <2>1. mode = "host" \/ (Head(path) # NextAssets /\ Within(r, path))
        <3>1. CASE run[r].basePath
            <4>1. path = Root(r) \o asset
                BY <3>1, <1>1
            <4>2. Head(Root(r) \o asset) # NextAssets /\ Within(r, Root(r) \o asset)
                BY <1>0, RootComesOff
            <4> QED  BY <4>1, <4>2
        <3> QED  BY <3>1, <1>3
    <2>2. link = [host |-> "public", path |-> path]
        BY <2>1 DEF RewrittenAsset
    <2> HIDE DEF link
    <2> QED  BY <2>1, <2>2, <1>1, <1>3 DEF Links, Leads, UpstreamPath
<1> QED  BY <1>1, <1>2, <1>3 DEF Modes

-----------------------------------------------------------------------------
(* The steps.                                                              *)

LEMMA InitIsGatewayIInv ==
    ASSUME Init
    PROVE  GatewayIInv
<1>1. <<>> \in Paths
    BY DEF Paths
<1>2. NoVisit \in Visits
    BY <1>1 DEF NoVisit, Visits, Replies, Flags
<1>3. GatewayTypes
    BY <1>2, PreviewGatewayAssumption DEF Init, GatewayTypes, Rows, Flags, Counts, Boxes, SandboxStates, Modes
<1>4. RowInv
    BY DEF Init, RowInv, RowOf
<1>5. VisitInv
    BY PreviewGatewayAssumption DEF Init, VisitInv, VisitOf, NoVisit, Admitted
<1> QED  BY <1>3, <1>4, <1>5 DEF GatewayIInv

(* What the rows and sandboxes do behind the back of a request.            *)
Settled ==
    /\ \A r \in Runs :
          /\ run[r].status = "succeeded" =>
                /\ run'[r].status = "succeeded" /\ run'[r].basePath = run[r].basePath
                /\ run'[r].url \in {None, run[r].url}
    /\ mode' = mode

(* What they do to it is remembered.                                       *)
Watched(v) ==
    /\ v \notin steady => v \notin steady'
    /\ \A r \in Runs :
          visit[v].run = r /\ sandbox'[r].state # "running" =>
              sandbox[r].state # "running" \/ v \notin steady'

LEMMA OtherVisitsKept ==
    ASSUME GatewayIInv, Settled, NEW v \in Visitors, Watched(v), visit'[v] = visit[v]
    PROVE  VisitOf(v)'
<1> DEFINE x == visit[v]
<1>1. VisitOf(v)
    BY DEF GatewayIInv, VisitInv
<1>2. CASE x.run \notin Runs
    <2>1. x.pc = "idle" /\ x.reply = None /\ x.link = None /\ None \notin {404, 410}
        BY <1>1, <1>2, PreviewGatewayAssumption DEF VisitOf, Admitted
    <2> QED  BY <2>1 DEF VisitOf, Admitted
<1>3. CASE x.run \in Runs
    <2>1. \A path, meant : Reaches(x.run, path, meant) => Reaches(x.run, path, meant)'
        BY <1>3 DEF Settled, Reaches, Within, UpstreamPath, Stripped, Root
    <2>2. x.pc \in Admitted => (sandbox'[x.run].state # "running" => v \notin steady')
        BY <1>1, <1>3 DEF VisitOf, Watched
    <2>3. x.reply = 404 /\ x.meant # None =>
              run'[x.run].status = "succeeded" /\ (run'[x.run].url = None \/ run'[x.run].url # <<mode', x.run>>)
        BY <1>1, <1>3 DEF Settled, VisitOf, IsWithdrawn, PublicUrl
    <2>4. v \notin steady => v \notin steady'
        BY DEF Watched
    <2> QED  BY <1>1, <1>3, <2>1, <2>2, <2>3, <2>4 DEF Settled, VisitOf, IsWithdrawn, PublicUrl
<1> QED  BY <1>2, <1>3

(* A step of one request touches the others only through the rows.         *)
Moves(v) ==
    /\ visit' \in [Visitors -> Visits]
    /\ \A w \in Visitors \ {v} : visit'[w] = visit[w]

LEMMA ContinueMoves ==
    ASSUME GatewayIInv, NEW v \in Visitors, NEW pc \in Admitted, Continue(v, pc)
    PROVE  /\ Moves(v)
           /\ visit'[v].pc = pc
           /\ visit'[v].run = visit[v].run /\ visit'[v].path = visit[v].path
           /\ visit'[v].meant = visit[v].meant /\ visit'[v].upstream = visit[v].upstream
           /\ visit'[v].basePath = visit[v].basePath
           /\ visit'[v].reply = visit[v].reply /\ visit'[v].link = visit[v].link
<1>1. visit \in [Visitors -> Visits]
    BY DEF GatewayIInv, GatewayTypes
<1> QED  BY <1>1 DEF Continue, Moves, Visits

Replied(x, code) == [x EXCEPT !.pc = "replied", !.reply = code]

LEMMA RepliedVisit ==
    ASSUME NEW x \in Visits, NEW code \in Replies
    PROVE  /\ Replied(x, code) \in Visits
           /\ Replied(x, code).pc = "replied" /\ Replied(x, code).reply = code
           /\ Replied(x, code).run = x.run
           /\ Replied(x, code).meant = x.meant /\ Replied(x, code).link = x.link
BY DEF Visits, Replied

LEMMA ReplyMoves ==
    ASSUME GatewayIInv, NEW v \in Visitors, NEW code \in Replies, Reply(v, code)
    PROVE  /\ Moves(v)
           /\ visit'[v].pc = "replied" /\ visit'[v].reply = code
           /\ visit'[v].run = visit[v].run
           /\ visit'[v].meant = visit[v].meant /\ visit'[v].link = visit[v].link
<1>1. visit \in [Visitors -> Visits] /\ visit[v] \in Visits
    BY DEF GatewayIInv, GatewayTypes
<1>2. visit' = [visit EXCEPT ![v] = Replied(visit[v], code)]
    BY <1>1 DEF Reply, Replied
<1> QED  BY <1>1, <1>2, RepliedVisit DEF Moves

(* A request that is told anything but that the preview has expired.       *)
LEMMA RefusalKeepsVisit ==
    ASSUME GatewayIInv, NEW v \in Visitors, visit[v].pc \in {"lookup"} \cup Admitted,
           NEW code \in {404, 413, 502}, Reply(v, code), Settled,
           code = 404 /\ visit[v].meant # None =>
               LET r == visit[v].run
               IN  run'[r].status = "succeeded" /\ (run'[r].url = None \/ run'[r].url # <<mode', r>>)
    PROVE  Moves(v) /\ VisitOf(v)'
<1>1. VisitOf(v) /\ visit[v].run \in Runs
    BY DEF GatewayIInv, VisitInv, VisitOf, Admitted
<1>2. visit[v].link = None
    BY <1>1 DEF VisitOf, Admitted
<1> QED  BY <1>1, <1>2, ReplyMoves, PreviewGatewayAssumption DEF VisitOf, IsWithdrawn, PublicUrl, Admitted, Replies

LEMMA GatewayIInvFromParts ==
    ASSUME GatewayIInv, NEW v \in Visitors, Moves(v), VisitOf(v)', Settled, RowInv',
           \A w \in Visitors \ {v} : Watched(w), steady' \subseteq Visitors,
           run' \in [Runs -> Rows], sandbox' \in [Runs -> Boxes],
           faults' \in 0 .. MaxFaults, deploys' \in 0 .. MaxDeploys
    PROVE  GatewayIInv'
<1>1. GatewayTypes'
    BY DEF GatewayIInv, GatewayTypes, Moves, Settled
<1>2. ASSUME NEW w \in Visitors \ {v}
      PROVE  VisitOf(w)'
    BY <1>2, OtherVisitsKept DEF Moves
<1>3. VisitInv'
    BY <1>2 DEF VisitInv
<1> QED  BY <1>1, <1>3 DEF GatewayIInv

(* Most requests read the rows and the sandboxes only.                     *)
LEMMA ReadingKeepsGatewayIInv ==
    ASSUME GatewayIInv, NEW v \in Visitors, Moves(v), VisitOf(v)',
           UNCHANGED <<mode, run, sandbox, deploys>>, faults' = faults \/ Fault,
           steady' \subseteq Visitors, steady' \ {v} = steady \ {v}
    PROVE  GatewayIInv'
<1>1. /\ run \in [Runs -> Rows] /\ sandbox \in [Runs -> Boxes]
      /\ faults \in 0 .. MaxFaults /\ deploys \in 0 .. MaxDeploys /\ RowInv
    BY DEF GatewayIInv, GatewayTypes
<1>2. Settled
    BY DEF Settled
<1>3. faults' \in 0 .. MaxFaults
    BY <1>1, PreviewGatewayAssumption DEF Fault
<1>4. RowInv'
    BY <1>1 DEF RowInv, RowOf
<1>5. \A w \in Visitors \ {v} : Watched(w)
    BY DEF Watched
<1> QED  BY <1>1, <1>2, <1>3, <1>4, <1>5, GatewayIInvFromParts

-----------------------------------------------------------------------------
(* Publication and the sandboxes.                                          *)

LEMMA RowStepsKeepGatewayIInv ==
    ASSUME GatewayIInv, UNCHANGED visit, Settled, RowInv',
           \A v \in Visitors : Watched(v), steady' \subseteq Visitors,
           run' \in [Runs -> Rows], sandbox' \in [Runs -> Boxes],
           faults' \in 0 .. MaxFaults, deploys' \in 0 .. MaxDeploys
    PROVE  GatewayIInv'
<1>1. GatewayTypes'
    BY DEF GatewayIInv, GatewayTypes, Settled
<1>2. VisitInv'
    BY OtherVisitsKept DEF VisitInv
<1> QED  BY <1>1, <1>2 DEF GatewayIInv

LEMMA SandboxStepsKeepGatewayIInv ==
    ASSUME GatewayIInv, NEW r \in Runs,
           \/ Publish(r) \/ EndpointFlaps(r)
           \/ SandboxStops(r) \/ SandboxIsGone(r) \/ SandboxPauses(r) \/ SandboxResumes(r)
    PROVE  GatewayIInv'
<1>0. GatewayTypes /\ RowInv
    BY DEF GatewayIInv
<1>1. CASE Publish(r)
    <2>1. PICK basePath \in Flags :
              run' = [run EXCEPT ![r].status = "succeeded", ![r].url = PublicUrl(r),
                                 ![r].basePath = basePath]
        BY <1>1 DEF Publish, Flags
    <2> DEFINE y == [run[r] EXCEPT !.status = "succeeded", !.url = PublicUrl(r),
                                   !.basePath = basePath]
    <2>2. /\ y \in Rows
          /\ y.url = PublicUrl(r) /\ y.status = "succeeded"
          /\ y.cleaned = run[r].cleaned /\ y.expiries = run[r].expiries
        <3>1. run[r] \in Rows /\ PublicUrl(r) \in Modes \X Runs
            BY <1>0 DEF GatewayTypes, PublicUrl
        <3> QED  BY <3>1 DEF Rows
    <2>3. run' = [run EXCEPT ![r] = y]
        BY <2>1, <1>0 DEF GatewayTypes, Rows
    <2> HIDE DEF y
    <2>4. /\ run' \in [Runs -> Rows] /\ run'[r] = y
          /\ \A q \in Runs \ {r} : run'[q] = run[q]
        BY <2>2, <2>3, <1>0 DEF GatewayTypes
    <2>5. RowInv' /\ Settled
        BY <2>2, <2>4, <1>0, <1>1 DEF RowInv, RowOf, Settled, Publish, GatewayTypes, PublicUrl
    <2>6. \A v \in Visitors : Watched(v)
        BY <1>1 DEF Publish, Watched
    <2> QED  BY <2>4, <2>5, <2>6, <1>0, <1>1, RowStepsKeepGatewayIInv DEF Publish, GatewayTypes
<1>2. CASE \/ SandboxStops(r) \/ SandboxIsGone(r) \/ SandboxPauses(r)
          \/ SandboxResumes(r) \/ EndpointFlaps(r)
    <2>1. PICK y \in Boxes : /\ sandbox' = [sandbox EXCEPT ![r] = y]
                             /\ \/ y.state = "running" \/ sandbox[r].state # "running"
                                \/ Interrupted(r)
                             /\ Interrupted(r) \/ steady' = steady
        <3>0. sandbox \in [Runs -> Boxes] /\ sandbox[r] \in Boxes
            BY <1>0 DEF GatewayTypes
        <3>1. CASE SandboxStops(r)
            <4>1. [state |-> "stopping", exposed |-> FALSE] \in Boxes
                BY DEF Boxes, SandboxStates
            <4> QED  BY <3>1, <4>1 DEF SandboxStops
        <3>2. CASE SandboxIsGone(r)
            <4>1. [sandbox[r] EXCEPT !.state = "gone"] \in Boxes
                BY <3>0 DEF Boxes, SandboxStates
            <4>2. sandbox' = [sandbox EXCEPT ![r] = [sandbox[r] EXCEPT !.state = "gone"]]
                BY <3>0, <3>2 DEF SandboxIsGone
            <4>3. sandbox[r].state # "running" /\ steady' = steady
                BY <3>2 DEF SandboxIsGone
            <4> QED  BY <4>1, <4>2, <4>3
        <3>3. CASE SandboxPauses(r)
            <4>1. \A exposed \in BOOLEAN : [state |-> "paused", exposed |-> exposed] \in Boxes
                BY DEF Boxes, SandboxStates
            <4> QED  BY <3>3, <4>1, Zenon DEF SandboxPauses
        <3>4. CASE SandboxResumes(r)
            <4>1. [state |-> "running", exposed |-> TRUE] \in Boxes
                BY DEF Boxes, SandboxStates
            <4>2. steady' = steady
                BY <3>4 DEF SandboxResumes
            <4> QED  BY <3>4, <4>1, <4>2 DEF SandboxResumes
        <3>5. CASE EndpointFlaps(r)
            <4> DEFINE y == [sandbox[r] EXCEPT !.exposed = ~sandbox[r].exposed]
            <4>1. y \in Boxes /\ y.state = sandbox[r].state
                BY <3>0 DEF Boxes
            <4>2. sandbox' = [sandbox EXCEPT ![r] = y]
                BY <3>0, <3>5 DEF EndpointFlaps
            <4>3. steady' = steady
                BY <3>5 DEF EndpointFlaps
            <4> QED  BY <4>1, <4>2, <4>3
        <3> QED  BY <1>2, <3>1, <3>2, <3>3, <3>4, <3>5
    <2>2. /\ UNCHANGED <<mode, run, visit, deploys>>
          /\ faults' \in 0 .. MaxFaults
        BY <1>0, <1>2, PreviewGatewayAssumption
        DEF SandboxStops, SandboxIsGone, SandboxPauses, SandboxResumes, EndpointFlaps, Fault,
            GatewayTypes
    <2>3. sandbox' \in [Runs -> Boxes]
        BY <2>1, <1>0 DEF GatewayTypes
    <2>4. RowInv' /\ Settled
        BY <2>2, <1>0 DEF RowInv, RowOf, Settled
    <2>5. \A v \in Visitors : Watched(v)
        BY <2>1, <1>0 DEF Watched, Interrupted, GatewayTypes
    <2>6. steady' \subseteq Visitors
        BY <2>1, <1>0 DEF Interrupted, GatewayTypes
    <2> QED  BY <2>2, <2>3, <2>4, <2>5, <2>6, <1>0, RowStepsKeepGatewayIInv DEF GatewayTypes
<1> QED  BY <1>1, <1>2

(* No request survives a redeployment, so no path of one mode is read in   *)
(* the other.                                                              *)
LEMMA RedeployKeepsGatewayIInv ==
    ASSUME GatewayIInv, Redeploy
    PROVE  GatewayIInv'
<1>1. NoVisit \in Visits
    BY DEF NoVisit, Visits, Replies, Flags, Paths
<1>2. GatewayTypes'
    BY <1>1, PreviewGatewayAssumption DEF GatewayIInv, GatewayTypes, Redeploy
<1>3. RowInv'
    BY DEF GatewayIInv, RowInv, RowOf, Redeploy
<1>4. VisitInv'
    BY PreviewGatewayAssumption DEF Redeploy, VisitInv, VisitOf, NoVisit, Admitted
<1> QED  BY <1>2, <1>3, <1>4 DEF GatewayIInv

-----------------------------------------------------------------------------
(* A request.                                                              *)

Requested(r, path, meant) ==
    [NoVisit EXCEPT !.pc = "lookup", !.run = r, !.path = path, !.meant = meant]

LEMMA RequestedVisit ==
    ASSUME NEW r \in Runs, NEW path \in Paths, NEW meant \in Paths \cup {None}
    PROVE  /\ Requested(r, path, meant) \in Visits
           /\ Requested(r, path, meant).pc = "lookup" /\ Requested(r, path, meant).run = r
           /\ Requested(r, path, meant).path = path /\ Requested(r, path, meant).meant = meant
           /\ Requested(r, path, meant).reply = None /\ Requested(r, path, meant).link = None
<1>1. <<>> \in Paths
    BY DEF Paths
<1> QED  BY <1>1 DEF Requested, NoVisit, Visits, Replies, Flags

LEMMA NothingMeantYet ==
    ASSUME NEW x \in Visits, x.meant = None, NEW r, NEW path
    PROVE  [x EXCEPT !.pc = "lookup", !.run = r, !.path = path] =
           [x EXCEPT !.pc = "lookup", !.run = r, !.path = path, !.meant = None]
BY DEF Visits

LEMMA OpenKeepsGatewayIInv ==
    ASSUME GatewayIInv, NEW v \in Visitors, NEW r \in Runs, Open(v, r)
    PROVE  GatewayIInv'
<1>1. PICK page \in Pages(r) :
          visit' = [visit EXCEPT ![v] = [NoVisit EXCEPT
                        !.pc = "lookup", !.run = r,
                        !.path = IF mode = "path" THEN Root(r) \o page ELSE page]]
    BY DEF Open
<1>path. PICK path : path = IF mode = "path" THEN Root(r) \o page ELSE page
    OBVIOUS
<1>2. path \in Paths
    <2>1. page \in Paths
        BY SiteIsOfPaths
    <2> QED  BY <1>path, <2>1, RootComesOff
<1>3. visit' = [visit EXCEPT ![v] = Requested(r, path, None)]
    <2>1. NoVisit \in Visits /\ NoVisit.meant = None
        BY DEF NoVisit, Visits, Replies, Flags, Paths
    <2> QED  BY <1>1, <1>path, <2>1, NothingMeantYet DEF Requested
<1>4. Moves(v) /\ visit'[v] = Requested(r, path, None)
    BY <1>2, <1>3, RequestedVisit DEF Moves, GatewayIInv, GatewayTypes
<1>5. VisitOf(v)'
    BY <1>2, <1>4, RequestedVisit, PreviewGatewayAssumption DEF VisitOf, Admitted
<1> QED  BY <1>4, <1>5, ReadingKeepsGatewayIInv DEF Open, GatewayIInv, GatewayTypes

LEMMA FollowKeepsGatewayIInv ==
    ASSUME GatewayIInv, NEW v \in Visitors, Follow(v)
    PROVE  GatewayIInv'
<1>1. /\ visit[v] \in Visits /\ VisitOf(v)
      /\ visit[v].pc = "replied"
      /\ visit[v].link # None /\ visit[v].link.host = "public"
    BY DEF Follow, At, GatewayIInv, GatewayTypes, VisitInv
<1>2. PICK r, path, meant :
          r = visit[v].run /\ path = visit[v].link.path /\ meant = visit[v].meant
    OBVIOUS
<1>3. /\ r \in Runs /\ path \in Paths /\ meant \in Paths \cup {None}
      /\ Reaches(r, path, meant)
    <2>1. visit[v].link \in Links
        BY <1>1 DEF Visits
    <2> QED  BY <2>1, <1>1, <1>2 DEF Links, Visits, VisitOf
<1>4. visit' = [visit EXCEPT ![v] = Requested(r, path, meant)]
    BY <1>2 DEF Follow, Requested
<1>5. Moves(v) /\ visit'[v] = Requested(r, path, meant)
    BY <1>3, <1>4, RequestedVisit DEF Moves, GatewayIInv, GatewayTypes
<1>6. Reaches(r, path, meant)'
    BY <1>3 DEF Follow, Reaches, Within, UpstreamPath, Stripped, Root
<1>7. VisitOf(v)'
    BY <1>3, <1>5, <1>6, RequestedVisit, PreviewGatewayAssumption DEF VisitOf, Admitted
<1> QED  BY <1>5, <1>7, ReadingKeepsGatewayIInv DEF Follow, GatewayIInv, GatewayTypes

LEMMA LeaveKeepsGatewayIInv ==
    ASSUME GatewayIInv, NEW v \in Visitors, Leave(v)
    PROVE  GatewayIInv'
<1>1. NoVisit \in Visits
    BY DEF NoVisit, Visits, Replies, Flags, Paths
<1>2. Moves(v) /\ visit'[v] = NoVisit
    BY <1>1 DEF Leave, Moves, GatewayIInv, GatewayTypes
<1>3. VisitOf(v)'
    BY <1>2, PreviewGatewayAssumption DEF VisitOf, NoVisit, Admitted
<1> QED  BY <1>2, <1>3, ReadingKeepsGatewayIInv DEF Leave, GatewayIInv, GatewayTypes

Accepted(x, basePath, upstream) ==
    [x EXCEPT !.pc = "body", !.basePath = basePath, !.upstream = upstream]

LEMMA AcceptedVisit ==
    ASSUME NEW x \in Visits, NEW basePath \in Flags, NEW upstream \in Paths
    PROVE  /\ Accepted(x, basePath, upstream) \in Visits
           /\ Accepted(x, basePath, upstream).pc = "body"
           /\ Accepted(x, basePath, upstream).basePath = basePath
           /\ Accepted(x, basePath, upstream).upstream = upstream
           /\ Accepted(x, basePath, upstream).run = x.run
           /\ Accepted(x, basePath, upstream).meant = x.meant
           /\ Accepted(x, basePath, upstream).reply = x.reply
           /\ Accepted(x, basePath, upstream).link = x.link
BY DEF Visits, Accepted, Admitted

(* What is stripped from a path is a path.                                 *)
LEMMA UpstreamIsAPath ==
    ASSUME NEW r \in Runs, NEW path \in Paths, NEW basePath \in BOOLEAN
    PROVE  UpstreamPath(r, path, basePath) \in Paths
<1> DEFINE first == Len(Root(r)) + 1
           last == Len(path)
<1>1. first \in Nat \ {0} /\ last \in Nat
    BY RootIsAPath DEF Paths
<1>2. \A i \in first .. last : path[i] \in Names
    BY <1>1, ElementOfSeq DEF Paths
<1>3. SubSeq(path, first, last) \in Seq(Names)
    <2> HIDE DEF first, last
    <2> QED  BY <1>1, <1>2, SubSeqProperties
<1> QED  BY <1>3 DEF UpstreamPath, Stripped, Paths

LEMMA LookupKeepsGatewayIInv ==
    ASSUME GatewayIInv, NEW v \in Visitors, Lookup(v)
    PROVE  GatewayIInv'
<1> DEFINE x == visit[v]
           upstream == UpstreamPath(x.run, x.path, run[x.run].basePath)
           known == /\ mode = "path" => Within(x.run, x.path)
                    /\ IsVerifiedTarget(x.run)
                    /\ run[x.run].url = PublicUrl(x.run)
<1>1. /\ x \in Visits /\ VisitOf(v) /\ x.pc = "lookup" /\ x.run \in Runs
      /\ x.path \in Paths
    BY DEF Lookup, At, GatewayIInv, GatewayTypes, VisitInv, VisitOf, Visits
<1>2. /\ UNCHANGED <<mode, run, sandbox, faults, deploys>>
      /\ steady' = IF sandbox[x.run].state = "running" THEN steady \cup {v} ELSE steady \ {v}
    BY DEF Lookup
<1>3. steady' \subseteq Visitors /\ steady' \ {v} = steady \ {v}
    BY <1>2 DEF GatewayIInv, GatewayTypes
<1>4. CASE ~known
    <2>1. Settled
        BY <1>2 DEF Settled
    <2>2. Reply(v, 404)
        BY <1>4 DEF Lookup
    <2>3. x.meant # None => run[x.run].status = "succeeded" /\ IsWithdrawn(x.run)
        BY <1>1, <1>4 DEF VisitOf, Reaches, IsVerifiedTarget, GatewayIInv, RowInv, RowOf, IsWithdrawn
    <2>4. run' = run /\ mode' = mode
        BY <1>2
    <2>5. Moves(v) /\ VisitOf(v)'
        BY <1>1, <2>1, <2>2, <2>3, <2>4, RefusalKeepsVisit DEF IsWithdrawn, PublicUrl
    <2> QED  BY <1>2, <1>3, <2>5, ReadingKeepsGatewayIInv
<1>5. CASE known
    <2>1. /\ IsVerifiedTarget(x.run) /\ run[x.run].url = PublicUrl(x.run)
          /\ visit' = [visit EXCEPT ![v] = Accepted(x, run[x.run].basePath, upstream)]
        BY <1>5 DEF Lookup, Accepted
    <2>2. run[x.run].basePath \in Flags /\ upstream \in Paths
        BY <1>1, UpstreamIsAPath DEF GatewayIInv, GatewayTypes, Rows, Flags
    <2>3. Moves(v) /\ visit'[v] = Accepted(x, run[x.run].basePath, upstream)
        BY <1>1, <2>1, <2>2, AcceptedVisit DEF Moves, GatewayIInv, GatewayTypes
    <2>4. x.meant # None => upstream = x.meant
        BY <1>1 DEF VisitOf, Reaches
    <2> HIDE DEF upstream, known
    <2>6. x.reply = None /\ x.link = None
        BY <1>1 DEF VisitOf
    <2>7. /\ visit'[v].pc = "body" /\ visit'[v].run = x.run
          /\ visit'[v].basePath = run[x.run].basePath
          /\ visit'[v].upstream = upstream /\ visit'[v].meant = x.meant
          /\ visit'[v].reply = None /\ visit'[v].link = None
        BY <1>1, <2>2, <2>3, <2>6, AcceptedVisit
    <2>8. /\ visit'[v].run \in Runs
          /\ run'[visit'[v].run].status = "succeeded"
          /\ run'[visit'[v].run].url = <<mode', visit'[v].run>>
          /\ visit'[v].basePath = run'[visit'[v].run].basePath
          /\ visit'[v].meant # None => visit'[v].upstream = visit'[v].meant
          /\ sandbox'[visit'[v].run].state # "running" => v \notin steady'
        BY <1>1, <1>2, <2>1, <2>4, <2>7 DEF IsVerifiedTarget, PublicUrl
    <2>9. VisitOf(v)'
        BY <2>7, <2>8, PreviewGatewayAssumption DEF VisitOf, Admitted, PublicUrl
    <2> QED  BY <1>2, <1>3, <2>3, <2>9, ReadingKeepsGatewayIInv
<1> QED  BY <1>4, <1>5

LEMMA ProgressKeepsVisit ==
    ASSUME GatewayIInv, NEW v \in Visitors, visit[v].pc \in Admitted,
           UNCHANGED <<mode, run, sandbox, steady>>,
           NEW pc \in Admitted, Continue(v, pc),
           pc = "expire" => v \notin steady
    PROVE  Moves(v) /\ VisitOf(v)'
<1>1. VisitOf(v) /\ visit[v].run \in Runs
    BY DEF GatewayIInv, VisitInv, VisitOf, Admitted
<1>2. visit[v].reply = None /\ visit[v].link = None
    BY <1>1 DEF VisitOf, Admitted
<1> QED  BY <1>1, <1>2, ContinueMoves, PreviewGatewayAssumption DEF VisitOf, PublicUrl, Admitted

LEMMA ReadBodyKeepsGatewayIInv ==
    ASSUME GatewayIInv, NEW v \in Visitors, ReadBody(v)
    PROVE  GatewayIInv'
<1>1. /\ visit[v].pc \in Admitted
      /\ UNCHANGED <<mode, run, sandbox, steady, faults, deploys>>
      /\ Settled /\ steady' \subseteq Visitors
    BY DEF GatewayIInv, GatewayTypes, ReadBody, At, Admitted, Settled
<1>2. CASE Continue(v, "resolve")
    <2>1. Moves(v) /\ VisitOf(v)'
        BY <1>1, <1>2, ProgressKeepsVisit DEF Admitted
    <2> QED  BY <1>1, <2>1, ReadingKeepsGatewayIInv
<1>3. CASE Reply(v, 413)
    <2>1. Moves(v) /\ VisitOf(v)'
        BY <1>1, <1>3, RefusalKeepsVisit
    <2> QED  BY <1>1, <2>1, ReadingKeepsGatewayIInv
<1> QED  BY <1>2, <1>3 DEF ReadBody

LEMMA ResolveKeepsGatewayIInv ==
    ASSUME GatewayIInv, NEW v \in Visitors, Resolve(v) \/ ResolveSandbox(v)
    PROVE  GatewayIInv'
<1>1. /\ visit[v].pc \in Admitted
      /\ UNCHANGED <<mode, run, sandbox, steady, deploys>>
      /\ Settled /\ steady' \subseteq Visitors
      /\ faults' = faults \/ Fault
    BY DEF GatewayIInv, GatewayTypes, Resolve, ResolveSandbox, SandboxLookup, At, Admitted, Settled
<1>2. CASE Reply(v, 502)
    <2>1. Moves(v) /\ VisitOf(v)'
        BY <1>1, <1>2, RefusalKeepsVisit
    <2> QED  BY <1>1, <2>1, ReadingKeepsGatewayIInv
<1>3. CASE ~Reply(v, 502)
    <2>1. PICK pc \in {"expire", "sandbox", "proxy"} :
              Continue(v, pc) /\ (pc = "expire" => sandbox[visit[v].run].state # "running")
        BY <1>3 DEF Resolve, ResolveSandbox, SandboxLookup
    <2>3. sandbox[visit[v].run].state # "running" => v \notin steady
        BY <1>1 DEF GatewayIInv, VisitInv, VisitOf
    <2>2. Moves(v) /\ VisitOf(v)'
        BY <1>1, <2>1, <2>3, ProgressKeepsVisit DEF Admitted
    <2> QED  BY <1>1, <2>2, ReadingKeepsGatewayIInv
<1> QED  BY <1>2, <1>3

ExpiredRow(x, flag, count) == [x EXCEPT !.url = None, !.cleaned = flag, !.expiries = count]

LEMMA ExpiredRowIsARow ==
    ASSUME NEW x \in Rows, NEW flag \in Flags, NEW count \in Counts
    PROVE  LET y == ExpiredRow(x, flag, count)
           IN  /\ y \in Rows
               /\ y.status = x.status /\ y.url = None /\ y.basePath = x.basePath
               /\ y.cleaned = flag /\ y.expiries = count
BY DEF Rows, ExpiredRow

(* The rows are read again: another visitor may have expired the preview   *)
(* meanwhile, and nobody can have published it again.                      *)
LEMMA ExpireKeepsGatewayIInv ==
    ASSUME GatewayIInv, NEW v \in Visitors, Expire(v)
    PROVE  GatewayIInv'
<1>1. PICK r : r = visit[v].run
    OBVIOUS
<1>2. /\ r \in Runs /\ VisitOf(v) /\ visit[v].pc = "expire"
      /\ run[r].status = "succeeded" /\ run[r].url \in {None, PublicUrl(r)}
      /\ v \notin steady /\ visit[v].link = None
    BY <1>1 DEF Expire, At, GatewayIInv, VisitInv, VisitOf, Admitted
<1>3. /\ Reply(v, 410) /\ UNCHANGED <<mode, sandbox, steady, faults, deploys>>
      /\ run' = IF MayExpire(r)
                THEN [run EXCEPT ![r].url = None, ![r].cleaned = TRUE, ![r].expiries = @ + 1]
                ELSE run
    BY <1>1 DEF Expire
<1>4. GatewayTypes /\ RowInv
    BY DEF GatewayIInv
<1>5. run[r] \in Rows /\ RowOf(r)
    BY <1>2, <1>4 DEF GatewayTypes, RowInv
<1>6. /\ run' \in [Runs -> Rows]
      /\ run'[r].status = "succeeded" /\ run'[r].url = None
      /\ run'[r].basePath = run[r].basePath
      /\ run'[r].cleaned => run'[r].expiries = 1
      /\ ~run'[r].cleaned => run'[r].expiries = 0
      /\ \A q \in Runs \ {r} : run'[q] = run[q]
    <2>1. CASE MayExpire(r)
        <3>0. PICK flag \in Flags, count \in Counts : flag = TRUE /\ count = run[r].expiries + 1
            <4>1. run[r].expiries + 1 \in Counts
                BY <1>5 DEF Rows, Counts
            <4>2. TRUE \in Flags
                BY DEF Flags
            <4> QED  BY <4>1, <4>2, Zenon
        <3> DEFINE y == ExpiredRow(run[r], flag, count)
        <3>1. run' = [run EXCEPT ![r] = y]
            BY <3>0, <2>1, <1>3, <1>4, <1>2 DEF GatewayTypes, ExpiredRow
        <3>2. /\ y \in Rows /\ y.status = run[r].status /\ y.url = None
              /\ y.basePath = run[r].basePath /\ y.cleaned = flag /\ y.expiries = count
            BY <1>5, ExpiredRowIsARow
        <3>3. run[r].expiries = 0
            BY <2>1, <1>5 DEF MayExpire, IsVerifiedTarget, RowOf
        <3> HIDE DEF y
        <3>4. /\ run' \in [Runs -> Rows] /\ run'[r] = y
              /\ \A q \in Runs \ {r} : run'[q] = run[q]
            BY <3>1, <3>2, <1>2, <1>4 DEF GatewayTypes
        <3>5. run'[r].expiries = 1
            BY <3>0, <3>2, <3>3, <3>4
        <3>6. run'[r].cleaned
            BY <3>0, <3>2, <3>4, Zenon
        <3> QED  BY <3>2, <3>4, <3>5, <3>6, <1>2
    <2>2. CASE ~MayExpire(r)
        <3>1. run[r].url = None
            BY <2>2, <1>2, <1>5 DEF MayExpire, IsVerifiedTarget, RowOf
        <3> QED  BY <3>1, <2>2, <1>2, <1>3, <1>4, <1>5 DEF GatewayTypes, RowOf
    <2> QED  BY <2>1, <2>2
<1>7. Settled
    BY <1>3, <1>6 DEF Settled
<1>8. RowInv'
    <2>1. RowOf(r)'
        BY <1>2, <1>3, <1>6 DEF RowOf, GatewayTypes, Rows
    <2>2. ASSUME NEW q \in Runs \ {r}
          PROVE  RowOf(q)'
        BY <1>3, <1>4, <1>6 DEF RowInv, RowOf
    <2> QED  BY <2>1, <2>2 DEF RowInv
<1>9. Moves(v) /\ VisitOf(v)'
    <2>1. /\ Moves(v) /\ visit'[v].pc = "replied" /\ visit'[v].reply = 410
          /\ visit'[v].run = r /\ visit'[v].link = None
        BY <1>1, <1>2, <1>3, ReplyMoves DEF Replies
    <2> QED  BY <2>1, <1>2, <1>3, <1>6, PreviewGatewayAssumption DEF VisitOf, Admitted
<1>10. \A w \in Visitors \ {v} : Watched(w)
    BY <1>3 DEF Watched
<1> QED  BY <1>3, <1>4, <1>6, <1>7, <1>8, <1>9, <1>10, GatewayIInvFromParts DEF GatewayTypes

Answered(x, code, meant, link) ==
    [x EXCEPT !.pc = "replied", !.reply = code, !.meant = meant, !.link = link]

LEMMA AnsweredVisit ==
    ASSUME NEW x \in Visits, NEW code \in Replies, NEW meant \in Paths,
           NEW link \in Links \cup {None}
    PROVE  LET y == Answered(x, code, meant, link)
           IN  /\ y \in Visits
               /\ y.pc = "replied" /\ y.reply = code /\ y.run = x.run
               /\ y.meant = meant /\ y.link = link
BY DEF Visits, Answered

LEMMA AnswerKeepsVisit ==
    ASSUME GatewayIInv, NEW v \in Visitors, visit[v].pc = "proxy",
           UNCHANGED <<mode, run, sandbox>>,
           NEW code \in Replies \ {404, 410}, NEW meant \in Paths, NEW link,
           Leads(visit[v].run, link, meant), Answer(v, code, meant, link)
    PROVE  Moves(v) /\ VisitOf(v)'
<1>1. PICK r : r = visit[v].run
    OBVIOUS
<1>3. /\ r \in Runs /\ visit[v] \in Visits /\ visit \in [Visitors -> Visits]
      /\ run[r].status = "succeeded"
    BY <1>1 DEF GatewayIInv, GatewayTypes, VisitInv, VisitOf, Admitted
<1>4. link \in Links \cup {None}
    BY DEF Leads
<1>5. visit' = [visit EXCEPT ![v] = Answered(visit[v], code, meant, link)]
    BY <1>3 DEF Answer, Answered
<1>6. /\ Moves(v) /\ visit'[v].pc = "replied" /\ visit'[v].reply = code
      /\ visit'[v].run = r /\ visit'[v].meant = meant /\ visit'[v].link = link
    BY <1>1, <1>3, <1>4, <1>5, AnsweredVisit DEF Moves
<1>7. link # None /\ link.host = "public" => Reaches(r, link.path, meant)'
    BY <1>1, <1>3 DEF Leads, Reaches, Within, UpstreamPath, Stripped, Root
<1> QED  BY <1>3, <1>6, <1>7 DEF VisitOf, Admitted

LEMMA ProxyKeepsGatewayIInv ==
    ASSUME GatewayIInv, NEW v \in Visitors, Proxy(v)
    PROVE  GatewayIInv'
<1>1. /\ visit[v].pc \in Admitted /\ visit[v].pc = "proxy"
      /\ UNCHANGED <<mode, run, sandbox, steady, deploys>>
      /\ Settled /\ steady' \subseteq Visitors
      /\ faults' = faults \/ Fault
    BY DEF GatewayIInv, GatewayTypes, Proxy, At, Admitted, Settled
<1> DEFINE r == visit[v].run
<1>2. {200, 307} \subseteq Replies \ {404, 410}
    BY PreviewGatewayAssumption DEF Replies
<1>3. /\ r \in Runs /\ mode \in Modes
      /\ run[r].basePath \in BOOLEAN /\ visit[v].basePath = run[r].basePath
    BY <1>1 DEF GatewayIInv, GatewayTypes, Rows, Flags, VisitInv, VisitOf
<1>4. ASSUME Reply(v, 502)
      PROVE  Moves(v) /\ VisitOf(v)'
    BY <1>1, <1>4, RefusalKeepsVisit
<1>5. ASSUME NEW page \in Pages(r), NEW host \in {"endpoint", "public", "elsewhere"},
             LET location == [host |-> host, path |-> BasePathOf(r) \o page]
             IN  Answer(v, 307, location.path,
                        RewrittenLocation(r, location, visit[v].basePath))
      PROVE  Moves(v) /\ VisitOf(v)'
    <2>1. PICK path, link :
              /\ path = BasePathOf(r) \o page
              /\ link = RewrittenLocation(r, [host |-> host, path |-> path], run[r].basePath)
        OBVIOUS
    <2>2. path \in Paths /\ Leads(r, link, path)
        BY <1>3, <2>1, RewrittenLocationLeads
    <2>3. Answer(v, 307, path, link)
        BY <1>3, <1>5, <2>1
    <2> QED  BY <1>1, <1>2, <2>2, <2>3, AnswerKeepsVisit
<1>6. ASSUME NEW asset \in Assets,
             Answer(v, 200, BasePathOf(r) \o asset, RewrittenAsset(r, BasePathOf(r) \o asset))
      PROVE  Moves(v) /\ VisitOf(v)'
    <2>1. PICK path, link : path = BasePathOf(r) \o asset /\ link = RewrittenAsset(r, path)
        OBVIOUS
    <2>2. path \in Paths /\ Leads(r, link, path)
        BY <1>3, <2>1, RewrittenAssetLeads
    <2>3. Answer(v, 200, path, link)
        BY <1>6, <2>1
    <2> QED  BY <1>1, <1>2, <2>2, <2>3, AnswerKeepsVisit
<1>7. Moves(v) /\ VisitOf(v)'
    BY <1>4, <1>5, <1>6, Zenon DEF Proxy
<1> QED  BY <1>1, <1>7, ReadingKeepsGatewayIInv

LEMMA StepKeepsGatewayIInv ==
    ASSUME GatewayIInv, [Next]_vars
    PROVE  GatewayIInv'
<1>1. ASSUME NEW r \in Runs,
             \/ Publish(r) \/ EndpointFlaps(r)
             \/ SandboxStops(r) \/ SandboxIsGone(r) \/ SandboxPauses(r) \/ SandboxResumes(r)
      PROVE  GatewayIInv'
    BY <1>1, SandboxStepsKeepGatewayIInv
<1>2. ASSUME NEW v \in Visitors,
             \/ \E r \in Runs : Open(v, r)
             \/ Follow(v) \/ Leave(v)
             \/ Lookup(v) \/ ReadBody(v) \/ Resolve(v) \/ ResolveSandbox(v)
             \/ Expire(v) \/ Proxy(v)
      PROVE  GatewayIInv'
    BY <1>2, OpenKeepsGatewayIInv, FollowKeepsGatewayIInv, LeaveKeepsGatewayIInv,
       LookupKeepsGatewayIInv, ReadBodyKeepsGatewayIInv, ResolveKeepsGatewayIInv,
       ExpireKeepsGatewayIInv, ProxyKeepsGatewayIInv
<1>3. CASE Redeploy
    BY <1>3, RedeployKeepsGatewayIInv
<1>4. CASE UNCHANGED vars
    <2>1. UNCHANGED <<mode, run, sandbox, visit, steady, faults, deploys>>
        BY <1>4 DEF vars
    <2>2. GatewayTypes' /\ RowInv' /\ Settled /\ \A v \in Visitors : Watched(v)
        BY <2>1 DEF GatewayIInv, GatewayTypes, RowInv, RowOf, Settled, Watched
    <2>3. VisitInv'
        BY <2>1, <2>2, OtherVisitsKept DEF VisitInv
    <2> QED  BY <2>2, <2>3 DEF GatewayIInv
<1> QED  BY <1>1, <1>2, <1>3, <1>4 DEF Next

-----------------------------------------------------------------------------
(* The theorems.                                                           *)

(* The inductive invariant holds of every run of the gateway: what the rows*)
(* and sandboxes agree on, and what each request relies on in each phase.  *)
THEOREM GatewayInvariantHolds == Spec => []GatewayIInv
<1>1. Init => GatewayIInv
    BY InitIsGatewayIInv
<1>2. GatewayIInv /\ [Next]_vars => GatewayIInv'
    BY StepKeepsGatewayIInv
<1> QED  BY <1>1, <1>2, PTL DEF Spec

(* Preview expiry: the durable URL goes once however many visitors notice, *)
(* only in a request during which the sandbox left Running, and a visitor  *)
(* who is told that a preview has expired finds it withdrawn               *)
(* (_sandbox_is_expired, expire_verified_preview_target).                  *)
THEOREM ExpiryIsHonestHolds == Spec => ExpiryIsHonest
<1>1. ASSUME GatewayIInv
      PROVE  GatewayTypeOK /\ ExpiredOnce /\ ToldExpiredIsExpired
    <2>1. GatewayTypes /\ RowInv /\ VisitInv
        BY <1>1 DEF GatewayIInv
    <2>2. GatewayTypeOK
        BY <2>1 DEF GatewayTypes, GatewayTypeOK, Rows, Boxes, Visits, Replies, Links, RowInv, RowOf
    <2>3. ExpiredOnce
        BY <2>1 DEF RowInv, RowOf, ExpiredOnce
    <2>4. ToldExpiredIsExpired
        BY <2>1 DEF VisitInv, VisitOf, ToldExpiredIsExpired
    <2> QED  BY <2>2, <2>3, <2>4
<1>2. ASSUME GatewayIInv, [Next]_vars
      PROVE  [UrlIsRemovedForCause]_vars
    <2>1. ASSUME NEW r \in Runs, run[r].url # None, run'[r].url = None
          PROVE  \E v \in Visitors :
                     visit[v].run = r /\ visit'[v].reply = 410 /\ v \notin steady
        <3>1. ASSUME NEW v \in Visitors, Expire(v)
              PROVE  visit[v].run = r /\ visit'[v].reply = 410 /\ v \notin steady
            <4>1. visit[v].run = r
                BY <2>1, <3>1, <1>2 DEF Expire, GatewayIInv, GatewayTypes
            <4>2. v \notin steady
                BY <3>1, <1>2 DEF Expire, At, GatewayIInv, VisitInv, VisitOf
            <4>3. visit'[v].reply = 410
                BY <3>1, <1>2, ReplyMoves DEF Expire, Replies
            <4> QED  BY <4>1, <4>2, <4>3
        <3>2. ASSUME NEW q \in Runs, Publish(q)
              PROVE  FALSE
            <4>1. run[r].status = "succeeded" /\ run[q].status = "running"
                BY <2>1, <3>2, <1>2 DEF Publish, GatewayIInv, GatewayTypes, Rows, RowInv, RowOf
            <4>2. run'[r] = run[r]
                BY <3>2, <4>1, <1>2 DEF Publish, GatewayIInv, GatewayTypes
            <4> QED  BY <2>1, <4>2
        <3>3. CASE UNCHANGED run
            BY <2>1, <3>3
        <3>4. \/ \E v \in Visitors : Expire(v)
              \/ \E q \in Runs : Publish(q)
              \/ UNCHANGED run
            BY <1>2 DEF Next, vars, SandboxStops, SandboxIsGone, SandboxPauses, SandboxResumes,
                        EndpointFlaps, Open, Follow, Leave, Lookup, ReadBody, Resolve,
                        ResolveSandbox, Proxy, Redeploy
        <3> QED  BY <3>1, <3>2, <3>3, <3>4
    <2> QED  BY <2>1 DEF UrlIsRemovedForCause
<1> QED  BY <1>1, <1>2, GatewayInvariantHolds, PTL DEF Spec, ExpiryIsHonest

(* Rewritten links arrive: a redirect or asset of the application, followed*)
(* through the gateway, is found and answered by the path the application  *)
(* meant, for every public address, as long as the preview is published    *)
(* there (_rewrite_location, _rewrite_legacy_next_assets, proxy_verified). *)
THEOREM LinksArriveHolds == Spec => []LinksArrive
<1>1. ASSUME GatewayIInv
      PROVE  LinksArrive
    BY <1>1 DEF GatewayIInv, VisitInv, VisitOf, Reaches, IsWithdrawn, IsVerifiedTarget, LinksArrive,
                Admitted
<1> QED  BY <1>1, GatewayInvariantHolds, PTL
=============================================================================
