--------------------------- MODULE CapabilityClient ---------------------------
(***************************************************************************)
(* adapters/claude/capabilities-client.mjs and the two Worker endpoints it *)
(* asks (handlers/capabilities.ts): a session asks for the profile of its  *)
(* platform and then for the skills the supported capabilities allow.      *)
(* Answers are kept for CACHE_TTL_MS; each release of the Worker may       *)
(* change what the endpoints answer, between a session's two requests as   *)
(* at any other time, and a browser keeps what is sent as immutable.       *)
(***************************************************************************)
EXTENDS Integers, FiniteSets

CONSTANTS
    Sessions,    \* calls of getSessionStartData
    Platforms,   \* identifiers a session may ask for
    Releases,    \* what each release of the Worker embeds, a sequence of
                 \* [profiles |-> [platform -> supported], skills |-> [skill -> required]]
    TTL,         \* CACHE_TTL_MS
    Transfer,    \* bound: the longest an answer travels; the client's timer ends
                 \* with the headers, the body has the platform's
    LastHour     \* bound: the clock stops here

ASSUME CapabilityClientAssumption ==
    /\ TTL \in Nat \ {0}
    /\ Transfer \in Nat
    /\ LastHour \in Nat

VARIABLES
    clock,
    release,     \* the release that answers, an index of Releases
    browser,     \* is there an HTTP cache under the client's fetch?
    kept,        \* the client's cache: key -> entry
    http,        \* the browser's cache: key -> answer, for a year
    session      \* the progress of each session

clientVars == <<clock, release, browser, kept, http, session>>

Nowhere == [k \in {} |-> 0]

ClientInit ==
    /\ clock = 0 /\ release = 1
    /\ browser \in BOOLEAN
    /\ kept = Nowhere /\ http = Nowhere
    /\ session = [s \in Sessions |-> [stage |-> "idle"]]

With(f, key, value) == [k \in DOMAIN f \cup {key} |-> IF k = key THEN value ELSE f[k]]

(* platform:<id> and compatible:<sorted capabilities>; the URL says the    *)
(* same, and neither names a release.                                      *)
ProfileKey(p) == <<"platform", {p}>>
SkillsKey(caps) == <<"compatible", caps>>

----------------------------------------------------------------------------
(* The Worker.                                                             *)

(* CAPABILITY_ID_RE has no place for a hyphen. *)
Hyphenated == {"shell.long-running", "ui.prompt-only"}
ValidCapabilities(caps) == caps # {} /\ caps \cap Hyphenated = {}

(* handleCapabilitiesForPlatform: an unknown platform is 404. *)
HandleCapabilitiesForPlatform(p) ==
    LET profiles == Releases[release].profiles
    IN IF p \notin DOMAIN profiles THEN [status |-> 404]
       ELSE [status |-> 200, platform |-> p, supported |-> profiles[p],
             release |-> release, at |-> clock]

(* handleSkillsCompatible: the skills whose required capabilities are all  *)
(* among those asked for.                                                  *)
HandleSkillsCompatible(caps) ==
    LET skills == Releases[release].skills
    IN IF ~ValidCapabilities(caps) THEN [status |-> 400]
       ELSE [status |-> 200, requested |-> caps, release |-> release, at |-> clock,
             skills |-> {i \in DOMAIN skills : skills[i] \subseteq caps}]

----------------------------------------------------------------------------
(* The client.                                                             *)

SessionAt(s, stage) == session[s].stage = stage
Put(s, value) == session' = [session EXCEPT ![s] = value]

(* A mistake: an entry is never looked at for its age. *)
FreshForever(key) == key \in DOMAIN kept

(* MemoryCache.get and LocalStorageCache.get: gone once now > expiresAt.   *)
Fresh(key) == key \in DOMAIN kept /\ clock <= kept[key].expiresAt

(* getPlatformCapabilities, getCompatibleSkills: from the cache, or by GET.*)
NeedProfile(s, p) ==
    IF Fresh(ProfileKey(p))
    THEN [stage |-> "skills", platform |-> p, profile |-> kept[ProfileKey(p)].answer]
    ELSE [stage |-> "get_profile", platform |-> p]

Asked(profile) == IF profile.supported # {} THEN profile.supported ELSE {"network.http"}

Done(s, skills) ==
    [stage |-> "done", profile |-> session[s].profile, skills |-> skills, at |-> clock]

StartSession(s, p) ==
    /\ SessionAt(s, "idle")
    /\ Put(s, NeedProfile(s, p))
    /\ UNCHANGED <<clock, release, browser, kept, http>>

NeedSkills(s) ==
    /\ SessionAt(s, "skills")
    /\ LET key == SkillsKey(Asked(session[s].profile))
       IN Put(s, IF Fresh(key) THEN Done(s, kept[key].answer)
                 ELSE [session[s] EXCEPT !.stage = "get_skills"])
    /\ UNCHANGED <<clock, release, browser, kept, http>>

(* fetch: the browser's cache answers, or the Worker does, and the answer  *)
(* is on its way.  An error has no Cache-Control.                          *)
Fetched(s, key, fromWorker) ==
    LET answer == IF browser /\ key \in DOMAIN http THEN http[key] ELSE fromWorker
    IN /\ Put(s, [stage |-> "receiving", key |-> key, answer |-> answer, since |-> clock,
                  before |-> session[s]])
       /\ http' = IF browser /\ answer.status = 200 THEN With(http, key, answer) ELSE http
       /\ UNCHANGED <<clock, release, browser, kept>>

GetProfile(s) ==
    /\ SessionAt(s, "get_profile")
    /\ Fetched(s, ProfileKey(session[s].platform),
               HandleCapabilitiesForPlatform(session[s].platform))

GetSkills(s) ==
    /\ SessionAt(s, "get_skills")
    /\ LET caps == Asked(session[s].profile)
       IN Fetched(s, SkillsKey(caps), HandleSkillsCompatible(caps))

(* #get ends well: the answer is kept, unless localStorage refuses it, and *)
(* the session goes on with it.                                            *)
ReceiveAnswer(s, stored) ==
    LET got == session[s]
        entry == [answer |-> got.answer, expiresAt |-> clock + TTL]
        ofProfile == got.before.stage = "get_profile"
    IN /\ SessionAt(s, "receiving") /\ got.answer.status = 200
       /\ kept' = IF stored THEN With(kept, got.key, entry) ELSE kept
       /\ Put(s, IF ofProfile
                 THEN [stage |-> "skills", platform |-> got.before.platform, profile |-> got.answer]
                 ELSE [stage |-> "done", profile |-> got.before.profile,
                       skills |-> got.answer, at |-> clock])
       /\ UNCHANGED <<clock, release, browser, http>>

(* CapabilityClientError: the Worker's status, or none for a timeout, a    *)
(* broken connection or a body that is not JSON.                           *)
Refused(s) ==
    /\ SessionAt(s, "receiving") /\ session[s].answer.status # 200
    /\ Put(s, [stage |-> "failed", code |-> session[s].answer.status])
    /\ UNCHANGED <<clock, release, browser, kept, http>>

Unreachable(s) ==
    /\ session[s].stage \in {"get_profile", "get_skills", "receiving"}
    /\ Put(s, [stage |-> "failed", code |-> 0])
    /\ UNCHANGED <<clock, release, browser, kept, http>>

Release ==
    /\ release + 1 \in DOMAIN Releases
    /\ release' = release + 1
    /\ UNCHANGED <<clock, browser, kept, http, session>>

(* An answer on its way arrives, or is given up, within Transfer; a session*)
(* does not wait between its two requests.                                 *)
TimePasses ==
    /\ clock < LastHour
    /\ \A s \in Sessions :
          /\ session[s].stage \notin {"get_profile", "skills", "get_skills"}
          /\ SessionAt(s, "receiving") => clock - session[s].since < Transfer
    /\ clock' = clock + 1
    /\ UNCHANGED <<release, browser, kept, http, session>>

ClientNext ==
    \/ \E s \in Sessions :
          \/ \E p \in Platforms : StartSession(s, p)
          \/ NeedSkills(s) \/ GetProfile(s) \/ GetSkills(s)
          \/ \E stored \in BOOLEAN : ReceiveAnswer(s, stored)
          \/ Refused(s) \/ Unreachable(s)
    \/ Release \/ TimePasses

ClientSpec == ClientInit /\ [][ClientNext]_clientVars

----------------------------------------------------------------------------

(* The skills a session starts with are those asked for with its profile,  *)
(* and some release found each of them allowed by it.  Neither part is     *)
(* older than the lifetime of an entry and two transfers, however the two  *)
(* were cached; in a browser, whose cache is told that they never change,  *)
(* they may be of any age.                                                 *)
SessionsHangTogether ==
    \A s \in Sessions : SessionAt(s, "done") =>
        LET profile == session[s].profile  skills == session[s].skills
        IN /\ skills.requested = Asked(profile)
           /\ \A i \in skills.skills :
                 Releases[skills.release].skills[i] \subseteq Asked(profile)
           /\ ~browser => /\ session[s].at - profile.at <= TTL + 2 * Transfer
                          /\ session[s].at - skills.at <= TTL + Transfer
=============================================================================
