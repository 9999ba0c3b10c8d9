---------------------------- MODULE ClientBuild -----------------------------
(***************************************************************************)
(* The build of the web client and what the web server makes of it.  The   *)
(* container of the client runs webpack, once for production and in watch  *)
(* mode for development, and writes its assets to a volume that outlives   *)
(* the container and that only the prebuild hook of npm empties; nginx     *)
(* serves the page from the same volume, and its .gz neighbour to browsers *)
(* that accept it.                                                         *)
(***************************************************************************)
EXTENDS Naturals

CONSTANTS
    Targets,    \* the values TARGET_ENV takes from one start to the next
    MaxEdits,   \* bound on the edits of the client's source
    MaxKills    \* bound on the stops of the container

ASSUME BuildAssumption ==
    /\ Targets \subseteq {"production", "development"}
    /\ MaxEdits \in Nat /\ MaxKills \in Nat

Versions == 0 .. MaxEdits

\* Files of the volume.  A script of production has the hash of the build in
\* its name.
Page    == <<"index.html">>
PageGz  == <<"index.html", "gz">>
DevScript == <<"main.js">>
Script(v)   == <<"main", v, "js">>
ScriptGz(v) == <<"main", v, "js", "gz">>
Files == {Page, PageGz, DevScript} \cup {Script(v) : v \in Versions}
                                   \cup {ScriptGz(v) : v \in Versions}

VARIABLES
    source,   \* the version of the client's source
    dist,     \* dist[f]: the version of the file f, of those in the volume
    target,   \* TARGET_ENV of the running container, or "none"
    todo,     \* the files webpack has still to write
    building, \* the version it has compiled
    built,    \* the version of the last build, once all of it is written
    kills     \* stops so far

buildVars == <<source, dist, target, todo, building, built, kills>>

None == MaxEdits + 1

BuildTypeOK ==
    /\ source \in Versions
    /\ DOMAIN dist \subseteq Files /\ \A f \in DOMAIN dist : dist[f] \in Versions
    /\ target \in Targets \cup {"none"}
    /\ todo \subseteq Files
    /\ building \in Versions \cup {None}
    /\ built \in Versions \cup {None}
    /\ kills \in 0 .. MaxKills

BuildInit ==
    /\ source = 0 /\ dist = [f \in {} |-> 0]
    /\ target = "none" /\ todo = {} /\ building = None /\ built = None /\ kills = 0

\* HtmlWebpackPlugin writes the page, with the scripts in it for production.
\* CompressionPlugin, of production alone, adds a .gz copy of each.
Assets(t, v) ==
    IF t = "production" THEN {Page, PageGz, Script(v), ScriptGz(v)}
    ELSE {Page, DevScript}

\* webpack compiles the source as it is and starts to write.
Compile(t) ==
    /\ todo' = Assets(t, source) /\ building' = source /\ built' = None

\* Mutant: webpack is run without the hook, over the files of earlier starts.
Start_Kept(t) ==
    /\ target = "none" /\ target' = t
    /\ Compile(t)
    /\ UNCHANGED <<source, dist, kills>>

\* The container starts with "npm run build", for either target: the prebuild
\* hook removes every file of the volume, then webpack runs.  (A stop between
\* the two leaves what the next start removes.)
Start(t) ==
    /\ target = "none" /\ target' = t
    /\ dist' = [f \in {} |-> 0]
    /\ Compile(t)
    /\ UNCHANGED <<source, kills>>

\* Mutant: the conditions on the environment are the wrong way round.
Rebuild_Production ==
    /\ target = "production" /\ todo = {} /\ building # source
    /\ Compile(target)
    /\ UNCHANGED <<source, dist, target, kills>>

\* In watch mode a change of the source starts a build when the last has ended.
Rebuild ==
    /\ target = "development" /\ todo = {} /\ building # source
    /\ Compile(target)
    /\ UNCHANGED <<source, dist, target, kills>>

\* Mutant: the build is taken to have ended with the first file.
Write_First(f) ==
    /\ f \in todo
    /\ todo' = todo \ {f}
    /\ dist' = [g \in DOMAIN dist \cup {f} |-> IF g = f THEN building ELSE dist[g]]
    /\ built' = building
    /\ UNCHANGED <<source, target, building, kills>>

\* Files are written one by one, in any order.
Write(f) ==
    /\ f \in todo
    /\ todo' = todo \ {f}
    /\ dist' = [g \in DOMAIN dist \cup {f} |-> IF g = f THEN building ELSE dist[g]]
    /\ built' = IF todo = {f} THEN building ELSE built
    /\ UNCHANGED <<source, target, building, kills>>

\* The container is stopped, in the middle of a build or not.
Stop ==
    /\ target # "none" /\ kills < MaxKills
    /\ target' = "none" /\ todo' = {} /\ kills' = kills + 1
    /\ UNCHANGED <<source, dist, building, built>>

Edit ==
    /\ source < MaxEdits /\ source' = source + 1
    /\ UNCHANGED <<dist, target, todo, building, built, kills>>

BuildNext ==
    \/ \E t \in Targets : Start(t)
    \/ Rebuild
    \/ \E f \in todo : Write(f)
    \/ Stop \/ Edit

BuildSpec == BuildInit /\ [][BuildNext]_buildVars

\* webpack ends what it has begun.
FairBuildSpec == BuildSpec /\ WF_buildVars(Rebuild) /\ WF_buildVars(\E f \in todo : Write(f))

\* gzip_static: the .gz file is sent when it is there, whatever its age.
Served(gzip) == IF gzip /\ PageGz \in DOMAIN dist THEN PageGz ELSE Page

\* The file is in the volume, and of the version v.
InDist(f, v) == f \in DOMAIN dist /\ dist[f] = v

\* The page and, outside the page in development, the script.
PageServed(v)   == \A gzip \in BOOLEAN : InDist(Served(gzip), v)
ScriptServed(v) == InDist(DevScript, v)
-----------------------------------------------------------------------------
(* Properties.                                                             *)

\* Once a build is written, and until the next one is begun, every browser
\* gets its page, whether it accepts gzip or not, and with a development page
\* the script that it loads, all of that one build: no file of an earlier
\* build, of the same target or the other, stopped in the middle or not, is
\* taken instead.
PageBuilt ==
    built # None =>
        /\ PageServed(built)
        /\ target = "development" => ScriptServed(built)

\* "Watch files in dev mode and rebuild on change": while the container is left
\* to run for development, browsers come to get the page and the script of the
\* source as it is, whatever was built into the volume before.
WatchedServed ==
    <>[](target = "development") => <>[](PageServed(source) /\ ScriptServed(source))
=============================================================================
