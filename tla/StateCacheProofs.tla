-------------------------- MODULE StateCacheProofs --------------------------
(***************************************************************************)
(* Proofs about StateCache: whatever the calls, the probes, the host, the  *)
(* failed writes and the crashes do to the file and to each other, what is *)
(* in force is sound and was stored or given, and the file keeps the       *)
(* configuration and the samples unless the histories name the overlap     *)
(* that lost them.                                                         *)
(***************************************************************************)
EXTENDS StateCache, FiniteSetTheorems, FunctionTheorems, TLAPS

-----------------------------------------------------------------------------
(***************************************************************************)
(* The configurations.  Canon is the dynamic part of what ApplyTo makes of *)
(* a stored configuration, which is the same over every base.              *)
(***************************************************************************)
Canon(dyn) == [dyn EXCEPT !.modelGroup = ParseGroup(@),
                          !.guard = Canonical(GivenGuard(dyn))]

\* A guard configuration in the form that the runtime gives it.
GuardSettled(g) ==
    g \in GuardConfigs /\ GuardParsed(g) /\ GuardValid(g) /\ Canonical(g) = g

\* A configuration that reads back as it was written.
Settled(dyn) == dyn \in DynamicConfigs /\ DynamicValid(dyn) /\ Canon(dyn) = dyn

\* A function, such as a record.
Total(f) == f = [x \in DOMAIN f |-> f[x]]

LEMMA SameValues ==
    ASSUME NEW f, NEW g, Total(f), Total(g), DOMAIN f = DOMAIN g,
           \A x \in DOMAIN f : f[x] = g[x]
    PROVE  f = g
BY DEF Total

\* What a document gives completely, a decoder takes over.
LEMMA OverlayWhole ==
    ASSUME NEW base, NEW given, DOMAIN given = DOMAIN base, Total(given)
    PROVE  Overlay(base, given) = given
BY DEF Overlay, Total

\* The fields of a guard configuration are those of the default one.
LEMMA GuardFields ==
    ASSUME NEW g \in GuardConfigs
    PROVE  DOMAIN g = DOMAIN DefaultGuard /\ Total(g)
BY DEF GuardConfigs, DefaultGuard, Total

LEMMA DynamicFields ==
    ASSUME NEW dyn \in DynamicConfigs
    PROVE  /\ DOMAIN dyn = DOMAIN Default \ HostOnly /\ Total(dyn)
           /\ DOMAIN dyn.limits = DOMAIN Default.limits /\ Total(dyn.limits)
           /\ DOMAIN dyn.schedule = DOMAIN Default.schedule /\ Total(dyn.schedule)
           /\ DOMAIN dyn.rules = {"boost", "normal"} /\ Total(dyn.rules)
           /\ dyn.guard \in GuardConfigs
BY DEF DynamicConfigs, Default, HostOnly, Total

\* The fields of the dynamic part of a configuration.
LEMMA DynamicOf ==
    ASSUME NEW c, DOMAIN c = DOMAIN Default
    PROVE  /\ DOMAIN Dynamic(c) = DOMAIN Default \ HostOnly
           /\ \A f \in DOMAIN Default \ HostOnly : Dynamic(c)[f] = c[f]
           /\ Total(Dynamic(c))
BY DEF Dynamic, Total

\* A whole configuration that was encoded is decoded as it was.
LEMMA DecodedWhole ==
    ASSUME NEW dyn \in DynamicConfigs
    PROVE  Decoded(dyn) = dyn
<1> DEFINE base == Dynamic(Default)
           part(f) == IF f \in DOMAIN dyn THEN dyn[f] ELSE <<>>
<1>1. /\ DOMAIN base = DOMAIN Default \ HostOnly
      /\ \A f \in DOMAIN Default \ HostOnly : base[f] = Default[f]
  BY DynamicOf
<1>2. {"limits", "schedule", "guard", "rules"} \subseteq DOMAIN Default \ HostOnly
  BY DEF Default, HostOnly
<1>3. base.limits = Default.limits /\ base.schedule = Default.schedule
      /\ base.guard = DefaultGuard
  <2>1. Default.guard = DefaultGuard
    BY DEF Default
  <2> QED BY <1>1, <1>2, <2>1
<1>4. /\ part("limits") = dyn.limits /\ part("schedule") = dyn.schedule
      /\ part("guard") = dyn.guard /\ part("rules") = dyn.rules
  BY <1>2, DynamicFields
<1> HIDE DEF base, part
<1>5. Overlay(base, dyn) = dyn
  BY <1>1, DynamicFields, OverlayWhole
<1>6. /\ Overlay(base.limits, part("limits")) = dyn.limits
      /\ Overlay(base.schedule, part("schedule")) = dyn.schedule
  BY <1>3, <1>4, DynamicFields, OverlayWhole
<1>7. Overlay(base.guard, part("guard")) = dyn.guard
  BY <1>3, <1>4, DynamicFields, GuardFields, OverlayWhole
<1>8. DecodedRules(part("rules")) = dyn.rules
  <2>1. DOMAIN DefaultRules = {"boost", "normal"}
    BY DEF DefaultRules
  <2> QED BY <2>1, <1>4, DynamicFields, OverlayWhole DEF DecodedRules
<1>9. Decoded(dyn) = [Overlay(base, dyn) EXCEPT !.limits = Overlay(base.limits, part("limits")),
                                 !.schedule = Overlay(base.schedule, part("schedule")),
                                 !.guard = Overlay(base.guard, part("guard")),
                                 !.rules = DecodedRules(part("rules"))]
  BY Zenon DEF Decoded, base, part
<1>10. Decoded(dyn) = [dyn EXCEPT !.limits = dyn.limits, !.schedule = dyn.schedule,
                                  !.guard = dyn.guard, !.rules = dyn.rules]
  BY <1>5, <1>6, <1>7, <1>8, <1>9, Zenon
<1> QED BY <1>10, DynamicFields, ZenonT(30) DEF Total

-----------------------------------------------------------------------------
\* A group that is read has one name, which reads as itself.
LEMMA ParseGroupTwice ==
    ASSUME NEW text, ParseGroup(text) # NoGroup
    PROVE  /\ ParseGroup(text) \in {"gemini", "claude_gpt"}
           /\ ParseGroup(ParseGroup(text)) = ParseGroup(text)
BY DEF ParseGroup, NoGroup

LEMMA LoweredTwice ==
    ASSUME NEW text
    PROVE  Lowered(Lowered(text)) = Lowered(text)
BY DEF Lowered

\* What Canonical changes.
LEMMA CanonicalFields ==
    ASSUME NEW g \in GuardConfigs
    PROVE  /\ DOMAIN Canonical(g) = DOMAIN g
           /\ Canonical(g).mode = Lowered(g.mode)
           /\ Canonical(g).enforcedGroups
                = [k \in DOMAIN g.enforcedGroups |-> ParseGroup(g.enforcedGroups[k])]
           /\ \A f \in DOMAIN g \ {"mode", "enforcedGroups"} : Canonical(g)[f] = g[f]
BY DEF Canonical, GuardConfigs

\* The guard of the default configuration is the default guard.
LEMMA DefaultTyped ==
    /\ Default.guard = DefaultGuard /\ Default.autoApply = FALSE
    /\ Dynamic(Default).guard = DefaultGuard
    /\ DefaultGuard \in GuardConfigs
<1>1. Default.guard = DefaultGuard /\ Default.autoApply = FALSE
  BY DEF Default
<1>2. "guard" \in DOMAIN Default \ HostOnly
  BY DEF Default, HostOnly
<1>3. Dynamic(Default).guard = DefaultGuard
  BY <1>1, <1>2, DynamicOf
<1> QED BY <1>1, <1>3, DefaultAssumption, DynamicFields

\* The default groups are those that are read, each under its own name.
LEMMA DefaultGroups ==
    LET groups == DefaultGuard.enforcedGroups IN
    /\ groups = [k \in DOMAIN groups |-> ParseGroup(groups[k])]
    /\ \A k \in DOMAIN groups : /\ groups[k] \in {"gemini", "claude_gpt"}
                               /\ ParseGroup(groups[k]) = groups[k]
    /\ "gemini" \in STRING /\ "claude_gpt" \in STRING
<1> DEFINE groups == DefaultGuard.enforcedGroups
<1>1. groups = <<"gemini", "claude_gpt">>
  BY Zenon DEF DefaultGuard
<1>2. ParseGroup("gemini") = "gemini" /\ ParseGroup("claude_gpt") = "claude_gpt"
  BY DEF ParseGroup
<1> HIDE DEF groups
<1>3. DOMAIN groups = {1, 2} /\ groups[1] = "gemini" /\ groups[2] = "claude_gpt"
  BY <1>1
<1>4. \A k \in DOMAIN groups : /\ groups[k] \in {"gemini", "claude_gpt"}
                              /\ ParseGroup(groups[k]) = groups[k]
  BY <1>2, <1>3
<1>5. groups = [k \in DOMAIN groups |-> groups[k]]
  BY <1>1
<1>6. "gemini" \in STRING /\ "claude_gpt" \in STRING
  <2>1. groups \in Seq(STRING)
    BY DefaultTyped DEF groups, GuardConfigs
  <2>2. groups[1] \in STRING /\ groups[2] \in STRING
    BY <1>3, <2>1
  <2> QED BY <1>3, <2>2
<1> QED BY <1>4, <1>5, <1>6 DEF groups

\* A guard configuration that is accepted is, in its canonical form, one that is
\* accepted again and stays as it is; and it is no empty one.
LEMMA CanonicalSettles ==
    ASSUME NEW g \in GuardConfigs, ToConfigAccepts(g)
    PROVE  GuardSettled(Canonical(g)) /\ Canonical(g) # ZeroGuard
<1> DEFINE h == Canonical(g)
           groups == g.enforcedGroups
<1>1. GuardParsed(g) /\ GuardValid(h)
  BY DEF ToConfigAccepts
<1>2. DOMAIN g = DOMAIN DefaultGuard /\ DOMAIN h = DOMAIN g /\ Total(h)
  BY GuardFields, CanonicalFields, ZenonT(30) DEF Canonical, Total
<1>3. \A f \in DOMAIN g \ {"mode", "enforcedGroups"} : h[f] = g[f]
  BY CanonicalFields
<1>4. groups \in Seq(STRING) /\ g.mode \in STRING
  BY DEF GuardConfigs
<1>5. DOMAIN h.enforcedGroups = DOMAIN groups
      /\ \A k \in DOMAIN groups : h.enforcedGroups[k] = ParseGroup(groups[k])
  <2>1. h.enforcedGroups = [k \in DOMAIN groups |-> ParseGroup(groups[k])]
    BY CanonicalFields, Zenon
  <2> HIDE DEF h, groups
  <2> QED BY <2>1
<1>6. h.mode = Lowered(g.mode)
  BY CanonicalFields, Zenon
<1>7. \A k \in DOMAIN groups : groups[k] # "" /\ ParseGroup(groups[k]) # NoGroup
  BY <1>1 DEF GuardParsed
<1>8. \A k \in DOMAIN groups : /\ h.enforcedGroups[k] \in {"gemini", "claude_gpt"}
                               /\ ParseGroup(h.enforcedGroups[k]) = h.enforcedGroups[k]
  BY <1>5, <1>7, ParseGroupTwice
<1>9. h.enforcedGroups \in Seq(STRING)
  <2>1. h.enforcedGroups = [k \in 1 .. Len(groups) |-> ParseGroup(groups[k])]
    BY CanonicalFields, <1>4
  <2>2. \A k \in 1 .. Len(groups) : ParseGroup(groups[k]) \in STRING
    BY <1>4, <1>5, <1>8, DefaultGroups
  <2> QED BY <2>1, <2>2, <1>4
<1>10. h.mode \in STRING
  BY <1>4, <1>6, DefaultAssumption DEF Lowered
<1>11. h \in GuardConfigs
  <2>1. h = [g EXCEPT !.mode = h.mode, !.enforcedGroups = h.enforcedGroups]
    BY CanonicalFields, Zenon DEF Canonical
  <2> HIDE DEF h
  <2> QED BY <2>1, <1>9, <1>10 DEF GuardConfigs
<1> HIDE DEF h
<1>12. GuardParsed(h)
  <2>1. \A k \in DOMAIN h.enforcedGroups :
          h.enforcedGroups[k] # "" /\ ParseGroup(h.enforcedGroups[k]) # NoGroup
    BY <1>5, <1>8 DEF NoGroup
  <2>2. {"probeInterval", "evidenceMaxAge", "window", "initialCooldown", "maxCooldown",
         "halfOpenLease"} \subseteq DOMAIN g \ {"mode", "enforcedGroups"}
    BY <1>2 DEF DefaultGuard
  <2> QED BY <1>1, <1>3, <2>1, <2>2 DEF GuardParsed
<1>13. Canonical(h) = h
  <2>1. Lowered(h.mode) = h.mode
    BY <1>6, LoweredTwice
  <2>2. [k \in DOMAIN h.enforcedGroups |-> ParseGroup(h.enforcedGroups[k])]
          = h.enforcedGroups
    BY <1>8, <1>5, <1>9
  <2>3. Canonical(h) = [h EXCEPT !.mode = h.mode, !.enforcedGroups = h.enforcedGroups]
    BY <2>1, <2>2, CanonicalFields, <1>11 DEF Canonical
  <2> QED BY <2>3, <1>2 DEF Total
<1>14. h # ZeroGuard
  <2>1. h.mode \in {"observe", "enforce"}
    BY <1>1 DEF GuardValid
  <2>2. h.mode # "" /\ ZeroGuard.mode = ""
    BY <2>1 DEF ZeroGuard
  <2> QED BY <2>2, Zenon
<1> QED BY <1>1, <1>11, <1>12, <1>13, <1>14 DEF GuardSettled, h

\* What is settled is accepted.
LEMMA SettledAccepted ==
    ASSUME NEW g, GuardSettled(g)
    PROVE  ToConfigAccepts(g) /\ g # ZeroGuard
<1>1. g # ZeroGuard
  <2>1. g.mode \in {"observe", "enforce"}
    BY DEF GuardSettled, GuardValid
  <2>2. g.mode # "" /\ ZeroGuard.mode = ""
    BY <2>1 DEF ZeroGuard
  <2> QED BY <2>2, Zenon
<1> QED BY <1>1 DEF GuardSettled, ToConfigAccepts

\* The default guard is a guard configuration, and settled.
LEMMA DefaultSettled == GuardSettled(DefaultGuard)
<1>2. DefaultGuard \in GuardConfigs
  BY DefaultTyped
<1>4. GuardValid(DefaultGuard)
  BY DefaultAssumption, DefaultTyped DEF ConfigValid
<1>5. Canonical(DefaultGuard) = DefaultGuard
  <2>1. Lowered(DefaultGuard.mode) = DefaultGuard.mode
    BY DEF DefaultGuard, Lowered
  <2>2. [k \in DOMAIN DefaultGuard.enforcedGroups |->
           ParseGroup(DefaultGuard.enforcedGroups[k])] = DefaultGuard.enforcedGroups
    BY DefaultGroups
  <2>3. Canonical(DefaultGuard)
          = [DefaultGuard EXCEPT !.mode = DefaultGuard.mode,
                                 !.enforcedGroups = DefaultGuard.enforcedGroups]
    BY <2>1, <2>2, <1>2, CanonicalFields DEF Canonical
  <2> QED BY <2>3, <1>2, GuardFields DEF Total
<1>6. GuardParsed(DefaultGuard)
  <2>1. \A k \in DOMAIN DefaultGuard.enforcedGroups :
          /\ DefaultGuard.enforcedGroups[k] # ""
          /\ ParseGroup(DefaultGuard.enforcedGroups[k]) # NoGroup
    BY DefaultGroups DEF NoGroup
  <2>2. /\ DefaultGuard.probeInterval > 0 /\ DefaultGuard.evidenceMaxAge > 0
        /\ DefaultGuard.window > 0 /\ DefaultGuard.initialCooldown > 0
        /\ DefaultGuard.maxCooldown > 0 /\ DefaultGuard.halfOpenLease > 0
    BY DEF DefaultGuard, Minute
  <2> QED BY <2>1, <2>2 DEF GuardParsed
<1> QED BY <1>2, <1>4, <1>5, <1>6 DEF GuardSettled

-----------------------------------------------------------------------------
(***************************************************************************)
(* ApplyTo: of the base only what the host alone may set is kept.          *)
(***************************************************************************)
LEMMA Applied ==
    ASSUME NEW dyn \in DynamicConfigs, NEW base, DOMAIN base = DOMAIN Default
    PROVE  LET c == ApplyTo(dyn, base) IN
           /\ DOMAIN c = DOMAIN Default
           /\ Dynamic(c) = Canon(dyn)
           /\ c.guard = Canonical(GivenGuard(dyn))
           /\ c.stateCachePath = base.stateCachePath
           /\ c.requiredSchedulerFor = base.requiredSchedulerFor
<1> DEFINE c == ApplyTo(dyn, base)
           o == Overlay(base, dyn)
           group == ParseGroup(dyn.modelGroup)
           g == Canonical(GivenGuard(dyn))
           fields == DOMAIN Default \ HostOnly
<1>1. DOMAIN dyn = fields /\ fields \subseteq DOMAIN Default
      /\ {"modelGroup", "guard"} \subseteq fields
  BY DynamicFields DEF Default, HostOnly
<1>2. {"stateCachePath", "requiredSchedulerFor"} \subseteq DOMAIN Default \ fields
  BY DEF Default, HostOnly
<1>3. c = [o EXCEPT !.modelGroup = group, !.guard = g]
  BY Zenon DEF ApplyTo
<1>4. DOMAIN o = DOMAIN Default
      /\ \A f \in DOMAIN Default : o[f] = IF f \in fields THEN dyn[f] ELSE base[f]
  BY <1>1 DEF Overlay
<1> HIDE DEF c, o, group, g, fields
<1>5. /\ DOMAIN c = DOMAIN Default /\ c.guard = g
      /\ \A f \in DOMAIN Default \ {"modelGroup", "guard"} : c[f] = o[f]
      /\ c.modelGroup = group
  BY <1>1, <1>3, <1>4
<1>6. DOMAIN Dynamic(c) = fields /\ Total(Dynamic(c))
      /\ \A f \in fields : Dynamic(c)[f] = c[f]
  BY <1>5, DynamicOf DEF fields
<1>7. /\ Canon(dyn) = [dyn EXCEPT !.modelGroup = group, !.guard = g]
      /\ Canon(dyn) = [f \in fields |-> IF f = "guard" THEN g
                                        ELSE IF f = "modelGroup" THEN group ELSE dyn[f]]
  BY <1>1 DEF Canon, group, g
<1>8. \A f \in fields : c[f] = Canon(dyn)[f]
  BY <1>1, <1>4, <1>5, <1>7
<1>9. Dynamic(c) = Canon(dyn)
  <2>1. DOMAIN Canon(dyn) = fields /\ Total(Canon(dyn))
    BY <1>7 DEF Total
  <2>2. \A f \in fields : Dynamic(c)[f] = Canon(dyn)[f]
    BY <1>6, <1>8
  <2> QED BY <1>6, <2>1, <2>2, SameValues
<1>10. c.stateCachePath = base.stateCachePath
       /\ c.requiredSchedulerFor = base.requiredSchedulerFor
  BY <1>1, <1>2, <1>4, <1>5
<1> QED BY <1>5, <1>9, <1>10 DEF c, g

\* What Canon changes.
LEMMA CanonFields ==
    ASSUME NEW dyn \in DynamicConfigs
    PROVE  /\ DOMAIN Canon(dyn) = DOMAIN dyn /\ Total(Canon(dyn))
           /\ Canon(dyn).modelGroup = ParseGroup(dyn.modelGroup)
           /\ Canon(dyn).guard = Canonical(GivenGuard(dyn))
           /\ \A f \in DOMAIN dyn \ {"modelGroup", "guard"} : Canon(dyn)[f] = dyn[f]
<1>1. {"modelGroup", "guard"} \subseteq DOMAIN dyn
  BY DynamicFields DEF Default, HostOnly
<1> QED BY <1>1 DEF Canon, Total

\* An accepted configuration is, as ApplyTo makes it, one that reads back as it
\* is written, with a settled guard.
LEMMA CanonSettles ==
    ASSUME NEW dyn \in DynamicConfigs, DynamicValid(dyn)
    PROVE  Settled(Canon(dyn)) /\ GuardSettled(Canon(dyn).guard)
<1> DEFINE e == Canon(dyn)
           given == GivenGuard(dyn)
<1>1. given \in GuardConfigs /\ ToConfigAccepts(given)
  BY DynamicFields, DefaultTyped DEF GivenGuard, DynamicValid
<1>2. GuardSettled(e.guard) /\ e.guard # ZeroGuard
  BY <1>1, CanonicalSettles, CanonFields, Zenon
<1>3. ParseGroup(dyn.modelGroup) # NoGroup
  BY DEF DynamicValid
<1>4. e.modelGroup \in {"gemini", "claude_gpt"} /\ ParseGroup(e.modelGroup) = e.modelGroup
  BY <1>3, ParseGroupTwice, CanonFields
<1>5. e.modelGroup \in STRING
  BY <1>4, DefaultGroups
<1>6. e = [dyn EXCEPT !.modelGroup = e.modelGroup, !.guard = e.guard]
  BY CanonFields, Zenon DEF Canon
<1> HIDE DEF e
<1>7. e \in DynamicConfigs
  BY <1>2, <1>5, <1>6 DEF DynamicConfigs, GuardSettled
<1>8. GivenGuard(e) = e.guard /\ ToConfigAccepts(e.guard)
  BY <1>2, SettledAccepted DEF GivenGuard
<1>9. \A f \in DOMAIN dyn \ {"modelGroup", "guard"} : e[f] = dyn[f]
  BY CanonFields DEF e
<1>10. {"autoApply", "interval", "limits", "rules", "schedule"}
         \subseteq DOMAIN dyn \ {"modelGroup", "guard"}
  BY DynamicFields DEF Default, HostOnly
<1>11. ParseGroup(e.modelGroup) # NoGroup
  BY <1>4 DEF NoGroup
<1>12. /\ e.autoApply = dyn.autoApply /\ e.interval = dyn.interval /\ e.limits = dyn.limits
       /\ e.rules = dyn.rules /\ e.schedule = dyn.schedule
  BY <1>9, <1>10
<1>13. DynamicValid(e)
  BY <1>8, <1>11, <1>12, SMTT(30) DEF DynamicValid
<1>14. Canon(e) = e
  <2>1. Canon(e) = [e EXCEPT !.modelGroup = e.modelGroup, !.guard = e.guard]
    BY <1>2, <1>4, <1>8 DEF Canon, GuardSettled
  <2> QED BY <2>1, <1>7, DynamicFields DEF Total
<1> QED BY <1>2, <1>7, <1>13, <1>14 DEF Settled, e

\* The guard of a settled configuration is settled.
LEMMA SettledGuard ==
    ASSUME NEW dyn, Settled(dyn)
    PROVE  GuardSettled(dyn.guard)
BY CanonSettles DEF Settled

\* A settled configuration stays one under another settled guard.
LEMMA GuardReplaced ==
    ASSUME NEW dyn \in DynamicConfigs, NEW g \in GuardConfigs
    PROVE  /\ [dyn EXCEPT !.guard = g] \in DynamicConfigs
           /\ Settled(dyn) /\ GuardSettled(g) => Settled([dyn EXCEPT !.guard = g])
<1> DEFINE e == [dyn EXCEPT !.guard = g]
<1>1. "guard" \in DOMAIN dyn /\ "modelGroup" \in DOMAIN dyn
      /\ {"autoApply", "interval", "limits", "rules", "schedule", "modelGroup"}
           \subseteq DOMAIN dyn \ {"guard"}
  BY DynamicFields DEF Default, HostOnly
<1>2. e \in DynamicConfigs
  BY DEF DynamicConfigs
<1>3. ASSUME Settled(dyn), GuardSettled(g)
      PROVE  Settled(e)
  <2>1. e.guard = g /\ \A f \in DOMAIN dyn \ {"guard"} : e[f] = dyn[f]
    BY <1>1
  <2> HIDE DEF e
  <2>2. /\ e.autoApply = dyn.autoApply /\ e.interval = dyn.interval
        /\ e.limits = dyn.limits /\ e.rules = dyn.rules /\ e.schedule = dyn.schedule
        /\ e.modelGroup = dyn.modelGroup
    BY <1>1, <2>1
  <2>3. GivenGuard(e) = g /\ ToConfigAccepts(g) /\ Canonical(g) = g
    BY <1>3, <2>1, SettledAccepted DEF GivenGuard, GuardSettled
  <2>4. DynamicValid(e)
    BY <1>3, <2>2, <2>3, SMTT(30) DEF DynamicValid, Settled
  <2>5. ParseGroup(e.modelGroup) = e.modelGroup
    <3>1. Canon(dyn).modelGroup = ParseGroup(dyn.modelGroup) /\ Canon(dyn) = dyn
      BY <1>3, CanonFields, Zenon DEF Settled
    <3> QED BY <2>2, <3>1
  <2>6. Canon(e) = [e EXCEPT !.modelGroup = e.modelGroup, !.guard = e.guard]
    BY <2>1, <2>3, <2>5 DEF Canon
  <2>7. Canon(e) = e
    BY <2>6, <1>2, DynamicFields DEF Total
  <2> QED BY <1>2, <2>4, <2>7 DEF Settled
<1> QED BY <1>2, <1>3

\* A configuration that the runtime may have.
Base(c) ==
    /\ DOMAIN c = DOMAIN Default
    /\ Settled(Dynamic(c))
    /\ c.stateCachePath = DefaultStateCachePath

LEMMA DefaultBase == Base(Default) /\ Dynamic(Default) \in HostGiven
<1> DEFINE dyn == Dynamic(Default)
<1>1. dyn \in DynamicConfigs /\ DynamicValid(dyn) /\ dyn.guard = DefaultGuard
  BY DefaultAssumption, DefaultTyped
<1>2. {"modelGroup", "guard"} \subseteq DOMAIN Default \ HostOnly
      /\ Default.modelGroup = "gemini" /\ Default.stateCachePath = DefaultStateCachePath
  BY DEF Default, HostOnly
<1>3. dyn.modelGroup = "gemini"
  BY <1>2, DynamicOf
<1>4. ParseGroup("gemini") = "gemini"
  BY DEF ParseGroup
<1> HIDE DEF dyn
<1>5. GivenGuard(dyn) = dyn.guard /\ Canonical(dyn.guard) = dyn.guard
  BY <1>1, DefaultSettled, SettledAccepted DEF GivenGuard, GuardSettled
<1>6. Canon(dyn) = [dyn EXCEPT !.modelGroup = dyn.modelGroup, !.guard = dyn.guard]
  BY <1>3, <1>4, <1>5 DEF Canon
<1>7. Canon(dyn) = dyn
  BY <1>6, <1>1, DynamicFields DEF Total
<1> QED BY <1>1, <1>2, <1>7 DEF Base, Settled, HostGiven, dyn

\* What the host's YAML gives is a configuration that the runtime may have, and
\* its guard's file is not the cache.
LEMMA HostBase ==
    ASSUME NEW base \in HostConfigs
    PROVE  /\ Base(base)
           /\ Cleaned(base.stateCachePath) # Cleaned(base.guard.statePath)
           /\ Dynamic(base) \in HostGiven
<1>1. PICK yaml \in Yamls : LoadAccepts(yaml) /\ base = LoadBytes(yaml)
  BY Zenon DEF HostConfigs
<1> DEFINE o == Overlay(Default, yaml)
           h == Canonical(Overlay(DefaultGuard, yaml.guard))
           fields == DOMAIN Default \ HostOnly
<1>2. base = [o EXCEPT !.guard = h]
  BY <1>1, Zenon DEF LoadBytes
<1>3. /\ {"autoApply", "guard"} \subseteq DOMAIN yaml
      /\ DOMAIN yaml \subseteq {"autoApply", "guard", "enabled", "requiredSchedulerFor"}
      /\ yaml.autoApply \in BOOLEAN /\ Overlay(DefaultGuard, yaml.guard) \in GuardConfigs
  BY InputAssumption
<1>4. /\ ~yaml.autoApply /\ ToConfigAccepts(Overlay(DefaultGuard, yaml.guard))
      /\ ConfigValid(base)
  BY <1>1, <1>2, Zenon DEF LoadAccepts
<1>5. GuardSettled(h)
  BY <1>3, <1>4, CanonicalSettles
<1>6. DOMAIN o = DOMAIN Default
      /\ \A f \in DOMAIN Default : o[f] = IF f \in DOMAIN yaml THEN yaml[f] ELSE Default[f]
  BY DEF Overlay
<1>7. {"autoApply", "guard"} \subseteq fields /\ "stateCachePath" \notin fields
      /\ {"enabled", "requiredSchedulerFor"} \cap fields = {}
      /\ "stateCachePath" \in DOMAIN Default
      /\ Default.stateCachePath = DefaultStateCachePath
  BY DEF Default, HostOnly
<1> HIDE DEF o, h
<1>8. \A f \in fields \ {"guard"} : o[f] = Default[f]
  BY <1>3, <1>4, <1>6, <1>7, DefaultTyped
<1>9. DOMAIN base = DOMAIN Default /\ base.guard = h
      /\ \A f \in DOMAIN Default \ {"guard"} : base[f] = o[f]
  BY <1>2, <1>6, <1>7
<1>10. o.stateCachePath = DefaultStateCachePath
  BY <1>3, <1>6, <1>7
<1>11. Dynamic(base) = [Dynamic(Default) EXCEPT !.guard = h]
  <2> DEFINE e == [Dynamic(Default) EXCEPT !.guard = h]
  <2>1. DOMAIN Dynamic(base) = fields /\ Total(Dynamic(base))
        /\ \A f \in fields : Dynamic(base)[f] = base[f]
    BY <1>9, DynamicOf
  <2>2. DOMAIN e = fields /\ Total(e)
    BY DynamicOf DEF Total
  <2>3. \A f \in fields : e[f] = IF f = "guard" THEN h ELSE Default[f]
    BY <1>7, DynamicOf
  <2> HIDE DEF e, fields
  <2>4. \A f \in fields : Dynamic(base)[f] = e[f]
    <3> TAKE f \in fields
    <3>1. CASE f = "guard"
      BY <3>1, <1>9, <2>1, <2>3
    <3>2. CASE f # "guard"
      BY <3>2, <1>8, <1>9, <2>1, <2>3 DEF fields
    <3> QED BY <3>1, <3>2
  <2> QED BY <2>1, <2>2, <2>4, SameValues DEF e
<1>12. Settled(Dynamic(base))
  BY <1>5, <1>11, DefaultBase, GuardReplaced DEF Base, Settled, GuardSettled
<1>13. Base(base)
  BY <1>7, <1>9, <1>10, <1>12 DEF Base
<1>14. Cleaned(base.stateCachePath) # Cleaned(base.guard.statePath)
  BY <1>4 DEF ConfigValid
<1> QED BY <1>13, <1>14 DEF HostGiven

\* The guard of a configuration that the runtime may have.
LEMMA BaseGuard ==
    ASSUME NEW c, Base(c)
    PROVE  GuardSettled(c.guard) /\ c.guard = Dynamic(c).guard
<1>1. "guard" \in DOMAIN Default \ HostOnly
  BY DEF Default, HostOnly
<1> QED BY <1>1, DynamicOf, SettledGuard DEF Base

-----------------------------------------------------------------------------
(***************************************************************************)
(* What is always true of the file, of the copies that a probe and a call  *)
(* hold of it, and of what is in force; S is what was stored.              *)
(***************************************************************************)
HeldIn(f) == IF f.dynamic = NoConfig THEN NoConfig ELSE Decoded(f.dynamic)

\* What Merged would make of it was stored.
Storable(dyn, S) ==
    \/ dyn = NoConfig
    \/ dyn \in DynamicConfigs /\ (DynamicValid(dyn) => Canon(dyn) \in S)

FileSound(f, S) ==
    /\ f.kind \in {"missing", "garbage", "breakers", "document"}
    /\ f.kind # "document" => f.dynamic = NoConfig /\ f.rounds = {}
    /\ Storable(HeldIn(f), S)

CopySound(copy, S) == copy.kind = "document" /\ Storable(copy.dynamic, S)

TaskSteps == {"idle", "collecting", "applied", "saving", "saved", "recording"}

TaskSound(t, S, n) ==
    /\ DOMAIN t = DOMAIN NoTask
    /\ t.step \in TaskSteps
    /\ t.step # "idle" => /\ CopySound(t.copy, S)
                          /\ t.round \in 1 .. n

SetterSound(s, S) ==
    /\ DOMAIN s = DOMAIN NoCall
    /\ s.step \in {"idle", "read", "loaded", "written"}
    /\ s.step = "read" => s.copy.dynamic \in DynamicConfigs
    /\ s.step \in {"loaded", "written"} =>
         s.copy.kind = "document" /\ Settled(s.copy.dynamic)
    /\ s.step = "written" => s.copy.dynamic \in S

CountsTyped ==
    sets \in Nat /\ probes \in Nat /\ starts \in Nat /\ hostCalls \in Nat
    /\ failures \in Nat

FlagsTyped ==
    /\ registered \in BOOLEAN /\ supported \in BOOLEAN /\ running \in BOOLEAN
    /\ raced \in BOOLEAN /\ overtaken \in BOOLEAN /\ shared \in BOOLEAN

InForce(c, g, S) ==
    /\ Base(c)
    /\ Dynamic(c) \in S \cup HostGiven
    /\ GuardSettled(g)

CacheInv ==
    /\ FileSound(file, stored)
    /\ \A dyn \in stored : Settled(dyn)
    /\ InForce(cfg, guard, stored)
    /\ TaskSound(task, stored, probes)
    /\ SetterSound(setter, stored)
    /\ sampled \subseteq 1 .. probes
    /\ FlagsTyped
    /\ CountsTyped

\* More was stored, more probes were started.
LEMMA StoredGrows ==
    ASSUME NEW S, NEW T, S \subseteq T, NEW m \in Nat, NEW n \in Nat, m <= n
    PROVE  /\ \A f : FileSound(f, S) => FileSound(f, T)
           /\ \A t : TaskSound(t, S, m) => TaskSound(t, T, n)
           /\ \A s : SetterSound(s, S) => SetterSound(s, T)
           /\ \A c, g : InForce(c, g, S) => InForce(c, g, T)
<1>1. \A dyn : Storable(dyn, S) => Storable(dyn, T)
  BY DEF Storable
<1>2. \A f : FileSound(f, S) => FileSound(f, T)
  BY <1>1 DEF FileSound
<1>3. \A t : TaskSound(t, S, m) => TaskSound(t, T, n)
  BY <1>1 DEF TaskSound, CopySound
<1>4. \A s : SetterSound(s, S) => SetterSound(s, T)
  BY DEF SetterSound
<1>5. \A c, g : InForce(c, g, S) => InForce(c, g, T)
  BY DEF InForce
<1> QED BY <1>2, <1>3, <1>4, <1>5

\* A copy that is written is read as it was held.
LEMMA CopyWritten ==
    ASSUME NEW copy, NEW S, CopySound(copy, S)
    PROVE  FileSound(copy, S) /\ HeldIn(copy) = copy.dynamic
<1>1. HeldIn(copy) = copy.dynamic
  <2>1. CASE copy.dynamic = NoConfig
    BY <2>1 DEF HeldIn
  <2>2. CASE copy.dynamic # NoConfig
    BY <2>2, DecodedWhole DEF HeldIn, CopySound, Storable
  <2> QED BY <2>1, <2>2
<1> QED BY <1>1 DEF CopySound, FileSound

\* What is read of the file is a copy that may be written.
LEMMA FileRead ==
    ASSUME NEW S, FileSound(file, S)
    PROVE  CopySound(Loaded, S) /\ Loaded.dynamic = HeldIn(file)
           /\ Loaded.rounds = file.rounds
<1>1. Loaded = [kind |-> "document", rounds |-> file.rounds, dynamic |-> HeldIn(file)]
  BY Zenon DEF Loaded, HeldIn
<1> QED BY <1>1 DEF CopySound, FileSound

\* What was stored in its settled form may be written.
LEMMA StoredCopy ==
    ASSUME NEW copy, NEW S, copy.kind = "document", Settled(copy.dynamic),
           copy.dynamic \in S
    PROVE  CopySound(copy, S) /\ copy.dynamic # NoConfig
BY InputAssumption DEF Settled, CopySound, Storable

\* What the runtime makes of the file over a configuration that it may have.
LEMMA MergedBase ==
    ASSUME NEW S, FileSound(file, S), NEW base, Base(base)
    PROVE  LET m == Merged(base) IN
           /\ Base(m)
           /\ Dynamic(m) \in S \cup {Dynamic(base)}
           /\ m.requiredSchedulerFor = base.requiredSchedulerFor
           /\ file.kind # "document" => m = base
<1> DEFINE m == Merged(base)
           dyn == Loaded.dynamic
<1>1. dyn = HeldIn(file) /\ Storable(dyn, S)
  BY FileRead DEF FileSound
<1>2. CASE Loadable /\ dyn # NoConfig /\ DynamicValid(dyn)
  <2>1. m = ApplyTo(dyn, base)
    BY <1>2, Zenon DEF Merged
  <2>2. dyn \in DynamicConfigs /\ Canon(dyn) \in S
    BY <1>1, <1>2 DEF Storable
  <2>3. file.kind = "document"
    BY <1>1, <1>2 DEF FileSound, HeldIn
  <2> HIDE DEF m, dyn
  <2>4. /\ DOMAIN m = DOMAIN Default /\ Dynamic(m) = Canon(dyn)
        /\ m.stateCachePath = base.stateCachePath
        /\ m.requiredSchedulerFor = base.requiredSchedulerFor
    BY <2>1, <2>2, Applied, Zenon DEF Base
  <2>5. Settled(Canon(dyn))
    BY <1>2, <2>2, CanonSettles DEF dyn
  <2> QED BY <2>2, <2>3, <2>4, <2>5 DEF Base, m
<1>3. CASE ~(Loadable /\ dyn # NoConfig /\ DynamicValid(dyn))
  <2>1. m = base
    BY <1>3, Zenon DEF Merged
  <2> QED BY <2>1
<1> QED BY <1>2, <1>3

-----------------------------------------------------------------------------
(***************************************************************************)
(* CacheInv holds initially and every action keeps it.                     *)
(***************************************************************************)
LEMMA InitSound == Init => CacheInv
<1> SUFFICES ASSUME Init PROVE CacheInv
  OBVIOUS
<1>1. /\ cfg = Default /\ guard = DefaultGuard /\ task = NoTask /\ setter = NoCall
      /\ stored = {Dynamic(Merged(Default))}
      /\ file \in Documents /\ sampled = {} /\ FlagsTyped /\ CountsTyped
  BY DEF Init, FlagsTyped, CountsTyped
<1>2. /\ file.kind \in {"missing", "garbage", "breakers", "document"}
      /\ file.kind # "document" => file.dynamic = NoConfig /\ file.rounds = {}
      /\ HeldIn(file) = NoConfig \/ HeldIn(file) \in DynamicConfigs
  <2>1. CASE file.kind = "document"
    BY <1>1, <2>1, InputAssumption DEF HeldIn
  <2>2. CASE file.kind # "document"
    <3>1. file \in {Missing, Garbage, Breakers}
      BY <1>1, <2>2, InputAssumption
    <3> QED BY <3>1 DEF Missing, Garbage, Breakers, HeldIn
  <2> QED BY <2>1, <2>2
<1>3. HeldIn(file) # NoConfig => Loadable
  BY <1>2 DEF HeldIn, Loadable
<1>4. FileSound(file, stored)
  <2>1. ASSUME HeldIn(file) # NoConfig, DynamicValid(HeldIn(file))
        PROVE  Canon(HeldIn(file)) \in stored
    <3>1. Loaded.dynamic = HeldIn(file)
      BY DEF Loaded, HeldIn
    <3>2. Merged(Default) = ApplyTo(HeldIn(file), Default)
      BY <1>3, <2>1, <3>1, Zenon DEF Merged
    <3>3. Dynamic(Merged(Default)) = Canon(HeldIn(file))
      BY <1>2, <2>1, <3>2, Applied
    <3> QED BY <1>1, <3>3
  <2>2. Storable(HeldIn(file), stored)
    <3>1. HeldIn(file) # NoConfig => HeldIn(file) \in DynamicConfigs
      BY <1>2
    <3> QED BY <2>1, <3>1, Zenon DEF Storable
  <2> QED BY <1>2, <2>2 DEF FileSound
<1>5. Base(Merged(Default))
  BY <1>4, DefaultBase, MergedBase
<1>6. \A dyn \in stored : Settled(dyn)
  BY <1>1, <1>5 DEF Base
<1>7. InForce(cfg, guard, stored)
  BY <1>1, DefaultBase, DefaultSettled DEF InForce
<1>8. TaskSound(task, stored, probes) /\ SetterSound(setter, stored)
  BY <1>1 DEF TaskSound, SetterSound, NoTask, NoCall, TaskSteps
<1> QED BY <1>1, <1>4, <1>6, <1>7, <1>8 DEF CacheInv

\* A probe that goes on keeps the copy that it holds.
LEMMA TaskMoves ==
    ASSUME NEW t, NEW S, NEW n, TaskSound(t, S, n),
           NEW step \in TaskSteps, step # "idle" => t.step # "idle",
           NEW u, u = [t EXCEPT !.step = step]
    PROVE  TaskSound(u, S, n) /\ u.copy = t.copy /\ u.round = t.round /\ u.step = step
<1>1. DOMAIN t = {"step", "round", "copy", "background", "cancelled"}
  BY DEF TaskSound, NoTask
<1>2. DOMAIN u = DOMAIN t /\ u.step = step /\ u.copy = t.copy /\ u.round = t.round
  BY <1>1
<1>3. TaskSound(u, S, n)
  BY <1>2 DEF TaskSound
<1> QED BY <1>2, <1>3

\* A probe whose worker is retired keeps all but its permission.
LEMMA TaskCancelled ==
    ASSUME NEW t, NEW S, NEW n, TaskSound(t, S, n), NEW cancelled,
           NEW u, u = [t EXCEPT !.cancelled = cancelled]
    PROVE  TaskSound(u, S, n) /\ u.copy = t.copy /\ u.round = t.round /\ u.step = t.step
<1>1. DOMAIN t = {"step", "round", "copy", "background", "cancelled"}
  BY DEF TaskSound, NoTask
<1>2. DOMAIN u = DOMAIN t /\ u.step = t.step /\ u.copy = t.copy /\ u.round = t.round
  BY <1>1
<1>3. TaskSound(u, S, n)
  BY <1>2 DEF TaskSound
<1> QED BY <1>2, <1>3

\* A write leaves the file as it was, or as the copy.
LEMMA Written ==
    ASSUME NEW S, FileSound(file, S), NEW copy, CopySound(copy, S),
           NEW outcome \in Outcomes, Write(copy, outcome), CountsTyped
    PROVE  FileSound(file', S) /\ failures' \in Nat
<1>1. file' = file \/ file' = copy
  BY DEF Write
<1>2. failures' \in Nat
  BY DEF Write, CountsTyped
<1> QED BY <1>1, <1>2, CopyWritten

LEMMA TaskLoadsSound ==
    ASSUME CacheInv, NEW background \in BOOLEAN, TaskLoads(background)
    PROVE  CacheInv' /\ task'.round = probes + 1 /\ task'.step = "collecting"
           /\ task'.copy.dynamic = Loaded.dynamic
           /\ task'.copy.rounds = file.rounds \cup {probes + 1}
<1> DEFINE copy == [Fetched EXCEPT !.rounds = @ \cup {probes + 1}]
<1>1. /\ task' = [step |-> "collecting", round |-> probes + 1, copy |-> copy,
                  background |-> background, cancelled |-> FALSE]
      /\ probes \in Nat /\ probes' = probes + 1
      /\ UNCHANGED <<file, active, running, setter, history, sets, starts, hostCalls,
                     failures>>
  BY DEF TaskLoads, CacheInv, CountsTyped
<1>2. CopySound(Loaded, stored) /\ Loaded.rounds = file.rounds
      /\ DOMAIN Loaded = {"kind", "rounds", "dynamic"}
  BY FileRead DEF CacheInv, Loaded
<1>3. /\ copy.kind = Loaded.kind /\ copy.dynamic = Loaded.dynamic
      /\ copy.rounds = file.rounds \cup {probes + 1}
  <2> HIDE DEF Loaded
  <2> QED BY <1>2 DEF Fetched
<1> HIDE DEF copy
<1>4. CopySound(copy, stored)
  BY <1>2, <1>3 DEF CopySound
<1>5. TaskSound(task', stored, probes')
  BY <1>1, <1>4 DEF TaskSound, NoTask, TaskSteps
<1>6. task'.step = "collecting" /\ task'.copy = copy /\ task'.round = probes + 1
  BY <1>1
<1> QED BY <1>1, <1>3, <1>5, <1>6
      DEF CacheInv, FlagsTyped, CountsTyped, active, history

LEMMA TaskGoesSound ==
    ASSUME CacheInv, TaskApplies \/ TaskStops \/ TaskChecks
    PROVE  /\ CacheInv'
           /\ UNCHANGED <<file, active, running, setter, history, counts>>
           /\ task'.step # "idle" =>
                task.step # "idle" /\ task'.copy = task.copy /\ task'.round = task.round
<1>1. /\ UNCHANGED <<file, active, running, setter, history, counts>>
      /\ TaskSound(task, stored, probes)
      /\ \E step \in TaskSteps :
           task' = [task EXCEPT !.step = step] /\ (step # "idle" => task.step # "idle")
  BY DEF TaskApplies, TaskStops, TaskChecks, TaskGoesTo, CacheInv, TaskSteps
<1>2. TaskSound(task', stored, probes)
      /\ task'.copy = task.copy /\ task'.round = task.round
      /\ (task'.step # "idle" => task.step # "idle")
  <2>1. PICK step \in TaskSteps :
          task' = [task EXCEPT !.step = step] /\ (step # "idle" => task.step # "idle")
    BY <1>1
  <2> QED BY <1>1, <2>1, TaskMoves
<1> QED BY <1>1, <1>2 DEF CacheInv, FlagsTyped, CountsTyped, active, history, counts

LEMMA TaskWritesSound ==
    ASSUME CacheInv, NEW outcome \in Outcomes, TaskWrites(outcome)
    PROVE  /\ CacheInv'
           /\ task'.copy = task.copy /\ task'.round = task.round
<1>1. /\ Write(task.copy, outcome) /\ task.step # "idle"
      /\ UNCHANGED <<active, running, setter, chosen, stored, raced, shared, sets, probes,
                     starts, hostCalls>>
      /\ sampled' \subseteq sampled \cup {task.round}
      /\ overtaken' \in BOOLEAN
      /\ \E step \in {"idle", "saved"} : task' = [task EXCEPT !.step = step]
  BY DEF TaskWrites, TaskGoesTo
<1>2. TaskSound(task, stored, probes) /\ FileSound(file, stored) /\ CountsTyped
      /\ sampled \subseteq 1 .. probes
  BY DEF CacheInv
<1>3. CopySound(task.copy, stored) /\ task.round \in 1 .. probes
  BY <1>1, <1>2 DEF TaskSound
<1>4. FileSound(file', stored) /\ failures' \in Nat
  BY <1>1, <1>2, <1>3, Written
<1>5. TaskSound(task', stored, probes) /\ task'.copy = task.copy /\ task'.round = task.round
  <2>1. PICK step \in {"idle", "saved"} : task' = [task EXCEPT !.step = step]
    BY <1>1
  <2>2. step \in TaskSteps
    BY DEF TaskSteps
  <2> QED BY <1>1, <1>2, <2>1, <2>2, TaskMoves
<1>6. sampled' \subseteq 1 .. probes
  BY <1>1, <1>2, <1>3
<1> QED BY <1>1, <1>4, <1>5, <1>6 DEF CacheInv, FlagsTyped, CountsTyped, active

LEMMA SetReadsSound ==
    ASSUME CacheInv, NEW body \in Updates, SetReads(body)
    PROVE  CacheInv'
<1> DEFINE dyn == [Dynamic(cfg) EXCEPT !.guard = body]
           copy == [Missing EXCEPT !.dynamic = dyn]
<1>1. /\ setter' = [step |-> "read", copy |-> copy] /\ sets' = sets + 1
      /\ UNCHANGED <<file, active, running, task, history, probes, starts, hostCalls,
                     failures>>
  BY DEF SetReads
<1>2. dyn \in DynamicConfigs
  BY GuardReplaced, InputAssumption DEF CacheInv, InForce, Base, Settled
<1>3. copy.dynamic = dyn
  <2> HIDE DEF dyn
  <2> QED BY DEF Missing
<1> HIDE DEF copy, dyn
<1>4. SetterSound(setter', stored)
  BY <1>1, <1>2, <1>3 DEF SetterSound, NoCall
<1> QED BY <1>1, <1>4 DEF CacheInv, FlagsTyped, CountsTyped, active, history

\* What a call will write and make active.
LEMMA SetLoadsSound ==
    ASSUME CacheInv, SetLoads
    PROVE  LET new == ApplyTo(setter.copy.dynamic, cfg) IN
           /\ CacheInv'
           /\ setter'.step = "loaded" /\ setter'.copy.rounds = file.rounds
           /\ Settled(setter'.copy.dynamic)
           /\ setter'.copy.dynamic.guard = new.guard
           /\ new.requiredSchedulerFor = cfg.requiredSchedulerFor
<1> DEFINE dyn == setter.copy.dynamic
           new == ApplyTo(dyn, cfg)
           copy == CopyFor(Dynamic(new))
<1>1. /\ setter.step = "read" /\ DynamicValid(dyn)
      /\ setter' = [step |-> "loaded", copy |-> copy]
      /\ shared' = (shared \/ (SharesFile(new.guard) /\ file.kind = "missing"))
      /\ UNCHANGED <<file, active, running, task, chosen, stored, sampled, raced, overtaken,
                     counts>>
  BY Zenon DEF SetLoads
<1>2. dyn \in DynamicConfigs /\ Base(cfg)
  BY <1>1 DEF CacheInv, SetterSound, InForce
<1>3. /\ DOMAIN new = DOMAIN Default /\ Dynamic(new) = Canon(dyn)
      /\ new.guard = Canonical(GivenGuard(dyn))
      /\ new.requiredSchedulerFor = cfg.requiredSchedulerFor
  BY <1>2, Applied, Zenon DEF Base
<1>4. Settled(Canon(dyn))
  BY <1>1, <1>2, CanonSettles
<1>5. copy.kind = "document" /\ copy.dynamic = Dynamic(new) /\ copy.rounds = file.rounds
  BY DEF CopyFor, Loaded
<1>6. Canon(dyn).guard = new.guard
  BY <1>2, <1>3, CanonFields, Zenon
<1> HIDE DEF copy, dyn, new
<1>7. setter'.step = "loaded" /\ setter'.copy = copy /\ DOMAIN setter' = DOMAIN NoCall
  BY <1>1 DEF NoCall
<1>8. SetterSound(setter', stored)
  BY <1>3, <1>4, <1>5, <1>7 DEF SetterSound
<1>9. shared' \in BOOLEAN
  BY <1>1 DEF CacheInv, FlagsTyped
<1>10. CacheInv'
  BY <1>1, <1>8, <1>9 DEF CacheInv, FlagsTyped, CountsTyped, active, counts
<1> QED BY <1>3, <1>4, <1>5, <1>6, <1>7, <1>10 DEF dyn, new

LEMMA SetRefusedSound ==
    ASSUME CacheInv, SetRefused
    PROVE  CacheInv'
<1>1. SetterSound(setter', stored)
  BY DEF SetRefused, SetterSound, NoCall
<1> QED BY <1>1 DEF SetRefused, CacheInv, FlagsTyped, CountsTyped, active, history, counts

LEMMA SetSavesSound ==
    ASSUME CacheInv, NEW outcome \in Outcomes, SetSaves(outcome)
    PROVE  /\ CacheInv'
           /\ stored \subseteq stored'
           /\ IF outcome = "ok" THEN setter'.step = "written" /\ setter'.copy = setter.copy
                                ELSE setter'.step = "idle"
<1> DEFINE dyn == setter.copy.dynamic
           T == stored \cup {dyn}
<1>1. /\ setter.step = "loaded" /\ Write(setter.copy, outcome)
      /\ setter' = IF outcome = "ok" THEN [setter EXCEPT !.step = "written"] ELSE NoCall
      /\ stored' = IF outcome = "failed" THEN stored ELSE T
      /\ raced' \in BOOLEAN
      /\ UNCHANGED <<active, running, task, chosen, sampled, overtaken, shared, sets, probes,
                     starts, hostCalls>>
  BY DEF SetSaves, Commits
<1>2. setter.copy.kind = "document" /\ Settled(dyn) /\ DOMAIN setter = {"step", "copy"}
  BY <1>1 DEF CacheInv, SetterSound, NoCall
<1>3. CopySound(setter.copy, T)
  BY <1>2, StoredCopy
<1>4. FileSound(file, stored) /\ CountsTyped /\ probes \in Nat /\ stored \subseteq stored'
  BY <1>1 DEF CacheInv, CountsTyped
<1>5. FileSound(file', stored') /\ failures' \in Nat
  <2>1. CASE outcome = "failed"
    BY <1>1, <1>4, <2>1 DEF Write, CountsTyped
  <2>2. CASE outcome # "failed"
    <3>1. FileSound(file, T)
      BY <1>4, StoredGrows
    <3> QED BY <1>1, <1>3, <1>4, <2>2, <3>1, Written
  <2> QED BY <2>1, <2>2
<1>6. /\ IF outcome = "ok" THEN setter'.step = "written" /\ setter'.copy = setter.copy
                           ELSE setter'.step = "idle"
      /\ DOMAIN setter' = DOMAIN NoCall
  BY <1>1, <1>2 DEF NoCall
<1>7. SetterSound(setter', stored')
  BY <1>1, <1>2, <1>6 DEF SetterSound, Outcomes
<1>8. TaskSound(task', stored', probes') /\ InForce(cfg', guard', stored')
  BY <1>1, <1>4, StoredGrows DEF CacheInv, active
<1>9. \A d \in stored' : Settled(d)
  BY <1>1, <1>2 DEF CacheInv
<1> QED BY <1>1, <1>4, <1>5, <1>6, <1>7, <1>8, <1>9
      DEF CacheInv, FlagsTyped, CountsTyped, active

\* What a call wrote is what it makes active.
LEMMA SetCommitsSound ==
    ASSUME CacheInv, SetCommits
    PROVE  /\ CacheInv'
           /\ guard' = setter.copy.dynamic.guard /\ cfg'.guard = guard'
           /\ cfg'.requiredSchedulerFor = cfg.requiredSchedulerFor
           /\ task'.copy = task.copy /\ task'.round = task.round /\ task'.step = task.step
           /\ UNCHANGED <<file, supported, running, stored, sampled, raced, overtaken,
                          shared, counts>>
<1> DEFINE dyn == setter.copy.dynamic
           new == ApplyTo(dyn, cfg)
<1>1. /\ setter.step = "written" /\ guard' = new.guard /\ cfg' = new
      /\ registered' = TRUE /\ setter' = NoCall
      /\ task' = [task EXCEPT !.cancelled = @ \/ task.background]
      /\ UNCHANGED <<file, supported, running, stored, sampled, raced, overtaken, shared,
                     counts>>
  BY Zenon DEF SetCommits, Installs
<1>2. Settled(dyn) /\ dyn \in stored /\ Base(cfg) /\ TaskSound(task, stored, probes)
  BY <1>1 DEF CacheInv, SetterSound, InForce
<1>3. dyn \in DynamicConfigs /\ Canon(dyn) = dyn
  BY <1>2 DEF Settled
<1>4. /\ DOMAIN new = DOMAIN Default /\ Dynamic(new) = Canon(dyn)
      /\ new.stateCachePath = cfg.stateCachePath
      /\ new.requiredSchedulerFor = cfg.requiredSchedulerFor
  BY <1>2, <1>3, Applied, Zenon DEF Base
<1> HIDE DEF dyn, new
<1>5. Base(new)
  BY <1>2, <1>3, <1>4 DEF Base
<1>6. GuardSettled(new.guard) /\ new.guard = dyn.guard
  BY <1>3, <1>4, <1>5, BaseGuard
<1>7. InForce(cfg', guard', stored')
  BY <1>1, <1>2, <1>3, <1>4, <1>5, <1>6 DEF InForce
<1>8. TaskSound(task', stored, probes)
      /\ task'.copy = task.copy /\ task'.round = task.round /\ task'.step = task.step
  BY <1>1, <1>2, TaskCancelled
<1>9. SetterSound(setter', stored)
  BY <1>1 DEF SetterSound, NoCall
<1>10. CacheInv'
  BY <1>1, <1>7, <1>8, <1>9 DEF CacheInv, FlagsTyped, CountsTyped, counts
<1> QED BY <1>1, <1>4, <1>6, <1>8, <1>10 DEF dyn

LEMMA StartSound ==
    ASSUME CacheInv, NEW outcome \in Outcomes, Start(outcome)
    PROVE  /\ CacheInv'
           /\ HeldIn(file') = HeldIn(file) /\ file'.rounds = file.rounds
           /\ file'.kind = file.kind \/ Loadable
           /\ guard' = DefaultGuard /\ cfg'.requiredSchedulerFor = {}
<1>1. /\ cfg' = Merged(Default) /\ guard' = DefaultGuard /\ starts' = starts + 1
      /\ running' = TRUE /\ registered' = FALSE /\ supported' = FALSE
      /\ UNCHANGED <<task, setter, history, sets, probes, hostCalls>>
      /\ \/ Loadable /\ Write(Loaded, outcome)
         \/ ~Loadable /\ UNCHANGED <<file, failures>>
  BY DEF Start
<1>2. FileSound(file, stored) /\ CountsTyped
  BY DEF CacheInv
<1>3. CopySound(Loaded, stored) /\ Loaded.dynamic = HeldIn(file)
      /\ Loaded.rounds = file.rounds
  BY <1>2, FileRead
<1>4. FileSound(file', stored) /\ failures' \in Nat
  BY <1>1, <1>2, <1>3, Written DEF CountsTyped
<1>5. HeldIn(Loaded) = Loaded.dynamic
  BY <1>3, CopyWritten
<1>6. /\ HeldIn(file') = HeldIn(file) /\ file'.rounds = file.rounds
      /\ file'.kind = file.kind \/ Loadable
  BY <1>1, <1>3, <1>5 DEF Write
<1>7. /\ Base(cfg') /\ Dynamic(cfg') \in stored \cup {Dynamic(Default)}
      /\ cfg'.requiredSchedulerFor = Default.requiredSchedulerFor
  BY <1>1, <1>2, DefaultBase, MergedBase
<1>8. InForce(cfg', guard', stored)
  BY <1>1, <1>7, DefaultBase, DefaultSettled DEF InForce
<1>9. cfg'.requiredSchedulerFor = {}
  BY <1>7 DEF Default
<1>10. FlagsTyped' /\ CountsTyped'
  <2>1. FlagsTyped'
    BY <1>1 DEF CacheInv, FlagsTyped, history
  <2>2. CountsTyped'
    BY <1>1, <1>2, <1>4 DEF CountsTyped
  <2> QED BY <2>1, <2>2
<1>11. CacheInv'
  BY <1>1, <1>4, <1>8, <1>10 DEF CacheInv, history
<1> QED BY <1>1, <1>6, <1>9, <1>11

LEMMA HostConfiguresSound ==
    ASSUME CacheInv, NEW base \in HostConfigs, NEW features \in BOOLEAN,
           HostConfigures(base, features)
    PROVE  /\ CacheInv'
           /\ task'.copy = task.copy /\ task'.round = task.round /\ task'.step = task.step
           /\ cfg' = Merged(base) /\ guard' = cfg'.guard
           /\ UNCHANGED <<file, running, setter, history, sets, probes, starts, failures>>
<1> DEFINE new == Merged(base)
<1>1. /\ guard' = new.guard /\ cfg' = new /\ registered' = TRUE
      /\ task' = [task EXCEPT !.cancelled = @ \/ task.background]
      /\ supported' = features /\ hostCalls' = hostCalls + 1
      /\ UNCHANGED <<file, running, setter, history, sets, probes, starts, failures>>
  BY Zenon DEF HostConfigures, Installs
<1>2. FileSound(file, stored) /\ TaskSound(task, stored, probes)
  BY DEF CacheInv
<1>3. Base(base) /\ Dynamic(base) \in HostGiven
  BY HostBase
<1> HIDE DEF new
<1>4. Base(new) /\ Dynamic(new) \in stored \cup {Dynamic(base)}
  BY <1>2, <1>3, MergedBase DEF new
<1>5. InForce(cfg', guard', stored)
  BY <1>1, <1>3, <1>4, BaseGuard DEF InForce
<1>6. TaskSound(task', stored, probes)
      /\ task'.copy = task.copy /\ task'.round = task.round /\ task'.step = task.step
  BY <1>1, <1>2, TaskCancelled
<1> QED BY <1>1, <1>5, <1>6 DEF CacheInv, FlagsTyped, CountsTyped, history, new

LEMMA CrashSound ==
    ASSUME CacheInv, Crash
    PROVE  CacheInv'
<1>1. TaskSound(task', stored, probes) /\ SetterSound(setter', stored)
  BY DEF Crash, TaskSound, SetterSound, NoTask, NoCall, TaskSteps
<1> QED BY <1>1 DEF Crash, CacheInv, FlagsTyped, CountsTyped, active, counts

LEMMA GuardSavesSound ==
    ASSUME CacheInv, GuardSaves
    PROVE  CacheInv'
<1>1. file' = Breakers /\ UNCHANGED <<active, running, task, setter, history, counts>>
  BY DEF GuardSaves
<1>2. FileSound(Breakers, stored)
  BY DEF FileSound, Storable, HeldIn, Breakers
<1> QED BY <1>1, <1>2 DEF CacheInv, FlagsTyped, CountsTyped, active, history, counts

LEMMA NextSound ==
    ASSUME CacheInv, [Next]_vars
    PROVE  CacheInv'
<1>1. CASE \E background \in BOOLEAN : TaskLoads(background)
  BY <1>1, TaskLoadsSound
<1>2. CASE TaskApplies \/ TaskStops \/ TaskChecks
  BY <1>2, TaskGoesSound
<1>3. CASE \E outcome \in Outcomes : TaskWrites(outcome)
  BY <1>3, TaskWritesSound
<1>4. CASE \E outcome \in Outcomes : SetSaves(outcome)
  BY <1>4, SetSavesSound
<1>5. CASE \E outcome \in Outcomes : Start(outcome)
  BY <1>5, StartSound
<1>6. CASE \E body \in Updates : SetReads(body)
  BY <1>6, SetReadsSound
<1>7. CASE SetLoads
  BY <1>7, SetLoadsSound
<1>8. CASE SetRefused
  BY <1>8, SetRefusedSound
<1>9. CASE SetCommits
  BY <1>9, SetCommitsSound
<1>10. CASE \E base \in HostConfigs, features \in BOOLEAN : HostConfigures(base, features)
  BY <1>10, HostConfiguresSound
<1>11. CASE Crash
  BY <1>11, CrashSound
<1>12. CASE GuardSaves
  BY <1>12, GuardSavesSound
<1>13. CASE UNCHANGED vars
  BY <1>13 DEF CacheInv, FlagsTyped, CountsTyped, vars, active, history, counts
<1> QED BY <1>1, <1>2, <1>3, <1>4, <1>5, <1>6, <1>7, <1>8, <1>9, <1>10, <1>11, <1>12,
           <1>13 DEF Next

LEMMA CacheAlwaysSound == Spec => []CacheInv
BY InitSound, NextSound, PTL DEF Spec

\* Every variable has its type, whatever is read, decoded and written: what was
\* stored is accepted when it is read again, in the form it was written in.
THEOREM StateCacheTypeCorrect == Spec => []TypeOK
<1>1. ASSUME CacheInv PROVE TypeOK
  <2>1. /\ file.kind \in {"missing", "garbage", "breakers", "document"}
        /\ file.kind # "document" => file.dynamic = NoConfig /\ file.rounds = {}
        /\ task.step \in TaskSteps
        /\ setter.step \in {"idle", "read", "loaded", "written"}
        /\ sampled \in SUBSET (1 .. probes)
    BY <1>1 DEF CacheInv, FileSound, TaskSound, SetterSound
  <2>2. DOMAIN cfg = DOMAIN Default /\ DOMAIN guard = DOMAIN DefaultGuard
    BY <1>1, GuardFields DEF CacheInv, InForce, Base, GuardSettled
  <2>3. ASSUME NEW dyn \in stored
        PROVE  DynamicValid(dyn) /\ Decoded(dyn) = dyn /\ Dynamic(ApplyTo(dyn, cfg)) = dyn
    <3>1. dyn \in DynamicConfigs /\ DynamicValid(dyn) /\ Canon(dyn) = dyn
      BY <1>1 DEF CacheInv, Settled
    <3> QED BY <2>2, <3>1, DecodedWhole, Applied
  <2> QED BY <1>1, <2>1, <2>2, <2>3
          DEF TypeOK, CacheInv, FlagsTyped, CountsTyped, TaskSteps
<1> QED BY <1>1, CacheAlwaysSound, PTL

\* Whatever fails, crashes or is written back, a configuration is in force only
\* after it was put into the file, or when the host gave it.
THEOREM OnlyStoredInForceAlways == Spec => []OnlyStoredInForce
<1>1. CacheInv => OnlyStoredInForce
  BY DEF CacheInv, InForce, OnlyStoredInForce
<1> QED BY <1>1, CacheAlwaysSound, PTL

-----------------------------------------------------------------------------
(***************************************************************************)
(* What prepareGuard asked of a configuration still holds when the call    *)
(* that was admitted makes it active, after its file was written.          *)
(***************************************************************************)
OnCache(g) == Cleaned(g.statePath) = Cleaned(DefaultStateCachePath)

Prepared(g) ==
    /\ OnCache(g) => shared
    /\ g.mode = "enforce" => supported /\ "antigravity" \in cfg.requiredSchedulerFor

PreparedInv ==
    /\ Prepared(guard)
    /\ registered /\ running => guard = cfg.guard
    /\ setter.step # "idle" => running
    /\ setter.step \in {"loaded", "written"} => Prepared(setter.copy.dynamic.guard)

\* The default guard observes, in a file of its own.
LEMMA DefaultPrepared == ~OnCache(DefaultGuard) /\ DefaultGuard.mode = "observe"
<1>1. Cleaned(Default.stateCachePath) # Cleaned(Default.guard.statePath)
  BY DefaultAssumption DEF ConfigValid
<1>2. Default.stateCachePath = DefaultStateCachePath /\ DefaultGuard.mode = "observe"
  BY DEF Default, DefaultGuard
<1> QED BY <1>1, <1>2, DefaultTyped DEF OnCache

LEMMA SetLoadsPrepared ==
    ASSUME CacheInv, PreparedInv, SetLoads
    PROVE  PreparedInv'
<1> DEFINE new == ApplyTo(setter.copy.dynamic, cfg)
<1>1. /\ setter.step = "read" /\ Prepares(new, supported) /\ Loadable
      /\ shared' = (shared \/ (SharesFile(new.guard) /\ file.kind = "missing"))
      /\ UNCHANGED <<file, active, running>>
  BY Zenon DEF SetLoads
<1>2. /\ setter'.step = "loaded" /\ setter'.copy.dynamic.guard = new.guard
      /\ new.requiredSchedulerFor = cfg.requiredSchedulerFor
  BY SetLoadsSound, Zenon
<1> HIDE DEF new
<1>3. SharesFile(new.guard) <=> OnCache(new.guard)
  BY DEF SharesFile, OnCache, CacheInv, InForce, Base
<1>4. OnCache(new.guard) => shared'
  BY <1>1, <1>3 DEF Prepares, Loadable
<1>5. new.guard.mode = "enforce" => supported /\ "antigravity" \in cfg.requiredSchedulerFor
  BY <1>1, <1>2 DEF Prepares
<1>6. running
  BY <1>1 DEF PreparedInv
<1> QED BY <1>1, <1>2, <1>4, <1>5, <1>6 DEF PreparedInv, Prepared, active

LEMMA HostConfiguresPrepared ==
    ASSUME CacheInv, PreparedInv, NEW base \in HostConfigs, NEW features \in BOOLEAN,
           HostConfigures(base, features)
    PROVE  PreparedInv'
<1> DEFINE new == Merged(base)
<1>1. /\ Prepares(new, features) /\ setter.step \in {"idle", "read"}
      /\ supported' = features
  BY Zenon DEF HostConfigures
<1>2. cfg' = new /\ guard' = new.guard /\ setter' = setter /\ running' = running
  BY HostConfiguresSound, Zenon
<1>3. /\ Base(base) /\ Cleaned(base.stateCachePath) # Cleaned(base.guard.statePath)
      /\ file.kind # "document" => new = base
      /\ FileSound(file, stored)
  BY HostBase, MergedBase DEF CacheInv
<1> HIDE DEF new
<1>4. ~OnCache(new.guard)
  <2>1. SharesFile(new.guard) <=> OnCache(new.guard)
    BY DEF SharesFile, OnCache, CacheInv, InForce, Base
  <2>2. SUFFICES ASSUME OnCache(new.guard) PROVE FALSE
    OBVIOUS
  <2>3. new = base
    BY <1>1, <1>3, <2>1, <2>2 DEF Prepares
  <2> QED BY <1>3, <2>2, <2>3 DEF OnCache, Base
<1>5. new.guard.mode = "enforce" =>
        features /\ "antigravity" \in new.requiredSchedulerFor
  BY <1>1 DEF Prepares
<1> QED BY <1>1, <1>2, <1>4, <1>5 DEF PreparedInv, Prepared

LEMMA NextPrepared ==
    ASSUME CacheInv, PreparedInv, [Next]_vars
    PROVE  PreparedInv'
<1>1. CASE \E background \in BOOLEAN : TaskLoads(background)
  BY <1>1 DEF TaskLoads, PreparedInv, Prepared, active, history
<1>2. CASE TaskApplies \/ TaskStops \/ TaskChecks
  BY <1>2 DEF TaskApplies, TaskStops, TaskChecks, PreparedInv, Prepared, active, history
<1>3. CASE \E outcome \in Outcomes : TaskWrites(outcome)
  BY <1>3 DEF TaskWrites, PreparedInv, Prepared, active
<1>4. CASE \E outcome \in Outcomes : SetSaves(outcome)
  <2>1. PICK outcome \in Outcomes : SetSaves(outcome)
    BY <1>4
  <2>2. /\ setter.step = "loaded" /\ UNCHANGED <<active, running, shared>>
        /\ IF outcome = "ok" THEN setter'.step = "written" /\ setter'.copy = setter.copy
                             ELSE setter'.step = "idle"
    BY <2>1, SetSavesSound DEF SetSaves
  <2> QED BY <2>2 DEF PreparedInv, Prepared, active
<1>5. CASE \E outcome \in Outcomes : Start(outcome)
  <2>1. /\ ~running /\ setter' = setter /\ guard' = DefaultGuard /\ registered' = FALSE
    BY <1>5 DEF Start
  <2> QED BY <2>1, DefaultPrepared DEF PreparedInv, Prepared
<1>6. CASE \E body \in Updates : SetReads(body)
  <2>1. setter'.step = "read" /\ running /\ UNCHANGED <<active, running, history>>
    BY <1>6 DEF SetReads
  <2> QED BY <2>1 DEF PreparedInv, Prepared, active, history
<1>7. CASE SetLoads
  BY <1>7, SetLoadsPrepared
<1>8. CASE SetRefused
  BY <1>8 DEF SetRefused, NoCall, PreparedInv, Prepared, active, history
<1>9. CASE SetCommits
  <2>1. /\ setter.step = "written" /\ setter'.step = "idle"
        /\ guard' = setter.copy.dynamic.guard /\ cfg'.guard = guard'
        /\ cfg'.requiredSchedulerFor = cfg.requiredSchedulerFor
        /\ UNCHANGED <<supported, running, shared>>
    BY <1>9, SetCommitsSound DEF SetCommits, NoCall
  <2> QED BY <2>1 DEF PreparedInv, Prepared
<1>10. CASE \E base \in HostConfigs, features \in BOOLEAN : HostConfigures(base, features)
  BY <1>10, HostConfiguresPrepared
<1>11. CASE Crash
  BY <1>11 DEF Crash, NoCall, PreparedInv, Prepared, active
<1>12. CASE GuardSaves
  BY <1>12 DEF GuardSaves, PreparedInv, Prepared, active, history
<1>13. CASE UNCHANGED vars
  BY <1>13 DEF PreparedInv, Prepared, vars, active, history
<1> QED BY <1>1, <1>2, <1>3, <1>4, <1>5, <1>6, <1>7, <1>8, <1>9, <1>10, <1>11, <1>12,
           <1>13 DEF Next

LEMMA AlwaysPrepared == Spec => []PreparedInv
<1>1. Init => PreparedInv
  BY DefaultPrepared DEF Init, PreparedInv, Prepared, NoCall
<1> QED BY <1>1, NextPrepared, CacheAlwaysSound, PTL DEF Spec

\* As many elements as places, in a sequence without a repetition.
LEMMA DistinctCount ==
    ASSUME NEW T, NEW s \in Seq(T), \A k, l \in DOMAIN s : s[k] = s[l] => k = l
    PROVE  Cardinality({s[k] : k \in DOMAIN s}) = Len(s)
<1> DEFINE R == {s[k] : k \in DOMAIN s}
<1>1. Len(s) \in Nat /\ DOMAIN s = 1 .. Len(s)
  OBVIOUS
<1>2. s \in [1 .. Len(s) -> R]
  BY <1>1
<1>3. s \in Bijection(1 .. Len(s), R)
  <2>1. \A t \in R : \E k \in 1 .. Len(s) : s[k] = t
    BY <1>1
  <2> HIDE DEF R
  <2> QED BY <1>1, <1>2, <2>1, Fun_IsBij
<1> HIDE DEF R
<1>4. ExistsBijection(1 .. Len(s), R)
  BY <1>3, Fun_ExistsBij
<1>5. IsFiniteSet(1 .. Len(s)) /\ Cardinality(1 .. Len(s)) = Len(s)
  BY <1>1, FS_Interval, SMTT(30)
<1> QED BY <1>4, <1>5, FS_Bijection DEF R

\* What the runtime accepts, the engine takes as it is.
LEMMA SettledSound ==
    ASSUME NEW g, GuardSettled(g)
    PROVE  Sound(g)
<1>1. /\ g.evidenceMaxAge >= g.probeInterval /\ g.probeInterval >= Minute
      /\ g.threshold \in 1 .. 10 /\ g.window > 0 /\ g.initialCooldown > 0
      /\ g.maxCooldown >= g.initialCooldown /\ g.halfOpenLease > 0
      /\ g.unknownAuthPolicy = "fail_closed" /\ g.unknownModelPolicy = "fail_closed"
      /\ g.mode = "enforce" => g.requireUniformPriority
      /\ \A k, l \in DOMAIN g.enforcedGroups :
           g.enforcedGroups[k] = g.enforcedGroups[l] => k = l
  BY DEF GuardSettled, GuardValid
<1>2. /\ g.evidenceMaxAge \in Int /\ g.window \in Int /\ g.initialCooldown \in Int
      /\ g.maxCooldown \in Int /\ g.halfOpenLease \in Int /\ g.threshold \in Int
      /\ g.enforcedGroups \in Seq(STRING) /\ g.probeInterval \in Int
  BY DEF GuardSettled, GuardConfigs
<1>3. g.evidenceMaxAge > 0
  BY DEF GuardSettled, GuardParsed
<1>4. \A f \in EngineFields : EngineConfig(g)[f] = g[f]
  <2>1. /\ ZeroGuard.threshold = 0 /\ ZeroGuard.window = 0
        /\ ZeroGuard.initialCooldown = 0 /\ ZeroGuard.maxCooldown = 0
        /\ ZeroGuard.halfOpenLease = 0 /\ ZeroGuard.evidenceMaxAge = 0
        /\ ZeroGuard.unknownAuthPolicy = "" /\ ZeroGuard.unknownModelPolicy = ""
    BY DEF ZeroGuard
  <2>2. /\ g.threshold # ZeroGuard.threshold /\ g.window # ZeroGuard.window
        /\ g.initialCooldown # ZeroGuard.initialCooldown
        /\ g.maxCooldown # ZeroGuard.maxCooldown
        /\ g.halfOpenLease # ZeroGuard.halfOpenLease
        /\ g.evidenceMaxAge # ZeroGuard.evidenceMaxAge
    <3>1. g.threshold > 0 /\ g.window > 0 /\ g.initialCooldown > 0 /\ g.halfOpenLease > 0
      BY <1>1
    <3>2. g.maxCooldown > 0
      <4>1. /\ g.initialCooldown \in Int /\ g.maxCooldown \in Int
            /\ g.initialCooldown > 0 /\ g.maxCooldown >= g.initialCooldown
        BY <1>1, <1>2
      <4> QED BY <4>1
    <3>3. \A x \in Int : x > 0 => x # 0
      OBVIOUS
    <3>4. /\ g.threshold # 0 /\ g.window # 0 /\ g.initialCooldown # 0
          /\ g.maxCooldown # 0 /\ g.halfOpenLease # 0 /\ g.evidenceMaxAge # 0
      BY <1>2, <1>3, <3>1, <3>2, <3>3
    <3> QED BY <2>1, <3>4
  <2>3. /\ g.unknownAuthPolicy # ZeroGuard.unknownAuthPolicy
        /\ g.unknownModelPolicy # ZeroGuard.unknownModelPolicy
    BY <1>1, <2>1
  <2>4. \A f \in EngineFields : g[f] # ZeroGuard[f]
    BY <2>2, <2>3 DEF EngineFields
  <2> QED BY <2>4 DEF EngineConfig
<1>5. EngineAccepts(EngineConfig(g))
  <2> DEFINE e == EngineConfig(g)
  <2>1. /\ e.threshold = g.threshold /\ e.window = g.window
        /\ e.initialCooldown = g.initialCooldown /\ e.maxCooldown = g.maxCooldown
        /\ e.halfOpenLease = g.halfOpenLease /\ e.evidenceMaxAge = g.evidenceMaxAge
        /\ e.unknownAuthPolicy = g.unknownAuthPolicy
        /\ e.unknownModelPolicy = g.unknownModelPolicy
    BY <1>4 DEF EngineFields
  <2> HIDE DEF e
  <2>2. e.threshold >= 1 /\ e.window > 0 /\ e.halfOpenLease > 0 /\ e.evidenceMaxAge > 0
    <3>1. g.threshold >= 1
      BY <1>1
    <3>2. g.window > 0 /\ g.halfOpenLease > 0
      BY <1>1
    <3> QED BY <1>3, <2>1, <3>1, <3>2, Zenon
  <2>3. 0 < e.initialCooldown /\ e.initialCooldown <= e.maxCooldown
    BY <1>1, <1>2, <2>1
  <2>4. {e.unknownAuthPolicy, e.unknownModelPolicy} \subseteq {"fail_closed", "fail_open"}
    BY <1>1, <2>1
  <2>5. EngineAccepts(e)
    BY <2>2, <2>3, <2>4 DEF EngineAccepts
  <2> QED BY <2>5 DEF e
<1>6. Cardinality({ParseGroup(g.enforcedGroups[k]) : k \in DOMAIN g.enforcedGroups})
        = Len(g.enforcedGroups)
  <2> DEFINE groups == g.enforcedGroups
  <2>1. groups = [k \in DOMAIN groups |-> ParseGroup(groups[k])]
    BY CanonicalFields, Zenon DEF GuardSettled
  <2>2. Cardinality({groups[k] : k \in DOMAIN groups}) = Len(groups)
    BY <1>1, <1>2, DistinctCount
  <2> HIDE DEF groups
  <2>3. \A k \in DOMAIN groups : ParseGroup(groups[k]) = groups[k]
    BY <2>1
  <2>4. {ParseGroup(groups[k]) : k \in DOMAIN groups} = {groups[k] : k \in DOMAIN groups}
    BY <2>3
  <2> QED BY <2>2, <2>4 DEF groups
<1> QED BY <1>1, <1>4, <1>5, <1>6 DEF Sound

\* A PUT of what the operator is shown would be accepted.
LEMMA ShownAccepted ==
    ASSUME CacheInv
    PROVE  DynamicValid(Shown)
<1> DEFINE m == Merged(cfg)
           d == Dynamic(m)
           c == Dynamic(cfg)
<1>1. Base(cfg) /\ Base(m)
  BY MergedBase DEF CacheInv, InForce
<1>2. /\ Settled(d) /\ DynamicValid(c) /\ cfg.schedule = c.schedule
  <2>1. "schedule" \in DOMAIN Default \ HostOnly
    BY DEF Default, HostOnly
  <2> QED BY <1>1, <2>1, DynamicOf DEF Base, Settled
<1>3. Shown = [d EXCEPT !.schedule = cfg.schedule]
  BY Zenon DEF Shown
<1> HIDE DEF m, d, c
<1>4. d \in DynamicConfigs /\ DynamicValid(d)
  BY <1>2 DEF Settled
<1>5. {"autoApply", "interval", "modelGroup", "limits", "rules", "guard", "schedule"}
        \subseteq DOMAIN d
  BY <1>4, DynamicFields DEF Default, HostOnly
<1>6. /\ Shown.autoApply = d.autoApply /\ Shown.interval = d.interval
      /\ Shown.modelGroup = d.modelGroup /\ Shown.limits = d.limits
      /\ Shown.rules = d.rules /\ Shown.guard = d.guard
      /\ Shown.schedule = c.schedule
  BY <1>2, <1>3, <1>5
<1>7. GivenGuard(Shown) = GivenGuard(d)
  BY <1>6 DEF GivenGuard
<1>8. /\ ~d.autoApply /\ d.interval >= Minute /\ ParseGroup(d.modelGroup) # NoGroup
      /\ \A f \in DOMAIN Limits : d.limits[f] \in Limits[f]
      /\ d.rules.boost \in 1 .. 999 /\ d.rules.normal \in 1 .. d.rules.boost
      /\ ToConfigAccepts(GivenGuard(d))
  BY <1>4, SMTT(30) DEF DynamicValid
<1>9. ValidTime(c.schedule.start) /\ ValidTime(c.schedule.end)
  BY <1>2 DEF DynamicValid
<1> QED BY <1>6, <1>7, <1>8, <1>9, SMTT(30) DEF DynamicValid

\* Whatever the host, an older document and the operator say, and whenever a
\* call is overtaken or crashes, the engine runs with a sound configuration, for
\* a host that can enforce it, and not with the cache as its own file.
THEOREM InForceIsSoundAlways == Spec => []InForceIsSound
<1>1. ASSUME CacheInv, PreparedInv PROVE InForceIsSound
  <2>1. Sound(guard)
    BY <1>1, SettledSound DEF CacheInv, InForce
  <2>2. SharesFile(guard) => shared
    BY <1>1 DEF CacheInv, InForce, Base, SharesFile, PreparedInv, Prepared, OnCache
  <2> QED BY <1>1, <2>1, <2>2, ShownAccepted DEF InForceIsSound, PreparedInv, Prepared
<1> QED BY <1>1, CacheAlwaysSound, AlwaysPrepared, PTL

-----------------------------------------------------------------------------
(***************************************************************************)
(* Nothing is lost without an overlap: what a probe and a call hold is not *)
(* older than the file, unless the histories say what overtook it.         *)
(***************************************************************************)
SamplesInv ==
    /\ task.step # "idle" => task.round \in task.copy.rounds
    /\ ~overtaken /\ ~shared =>
         /\ sampled \subseteq file.rounds
         /\ task.step # "idle" => sampled \subseteq task.copy.rounds
         /\ setter.step = "loaded" => sampled \subseteq setter.copy.rounds

\* The guard writes where the cache is only after a call named the cache.
LEMMA GuardSavesShared ==
    ASSUME CacheInv, PreparedInv, GuardSaves
    PROVE  shared
BY DEF GuardSaves, SharesFile, CacheInv, InForce, Base, PreparedInv, Prepared, OnCache

LEMMA NextSamples ==
    ASSUME CacheInv, PreparedInv, SamplesInv, [Next]_vars
    PROVE  SamplesInv'
<1>1. CASE \E background \in BOOLEAN : TaskLoads(background)
  <2>1. /\ task'.round = probes + 1
        /\ task'.copy.rounds = file.rounds \cup {probes + 1}
        /\ UNCHANGED <<file, setter, sampled, overtaken, shared>>
    BY <1>1, TaskLoadsSound DEF TaskLoads, history
  <2> QED BY <2>1 DEF SamplesInv
<1>2. CASE TaskApplies \/ TaskStops \/ TaskChecks
  <2>1. /\ UNCHANGED <<file, setter, sampled, overtaken, shared>>
        /\ task'.step # "idle" =>
             task.step # "idle" /\ task'.copy = task.copy /\ task'.round = task.round
    BY <1>2, TaskGoesSound DEF history
  <2> QED BY <2>1 DEF SamplesInv
<1>3. CASE \E outcome \in Outcomes : TaskWrites(outcome)
  <2>1. PICK outcome \in Outcomes : TaskWrites(outcome)
    BY <1>3
  <2>2. /\ task.step # "idle" /\ file' = IF outcome = "failed" THEN file ELSE task.copy
        /\ sampled' = IF outcome = "ok" THEN sampled \cup {task.round} ELSE sampled
        /\ overtaken' = (overtaken \/ setter.step = "loaded")
        /\ UNCHANGED <<setter, shared>>
    BY <2>1 DEF TaskWrites, Write
  <2>3. task'.copy = task.copy /\ task'.round = task.round
    BY <2>1, TaskWritesSound
  <2> QED BY <2>2, <2>3 DEF SamplesInv
<1>4. CASE \E outcome \in Outcomes : SetSaves(outcome)
  <2>1. PICK outcome \in Outcomes : SetSaves(outcome)
    BY <1>4
  <2>2. /\ setter.step = "loaded" /\ setter'.step # "loaded"
        /\ file' = IF outcome = "failed" THEN file ELSE setter.copy
        /\ UNCHANGED <<task, sampled, overtaken, shared>>
    BY <2>1, SetSavesSound DEF SetSaves, Write
  <2> QED BY <2>2 DEF SamplesInv
<1>5. CASE \E outcome \in Outcomes : Start(outcome)
  <2>1. file'.rounds = file.rounds /\ UNCHANGED <<task, setter, sampled, overtaken, shared>>
    BY <1>5, StartSound DEF Start, history
  <2> QED BY <2>1 DEF SamplesInv
<1>6. CASE \E body \in Updates : SetReads(body)
  <2>1. setter'.step = "read" /\ UNCHANGED <<file, task, sampled, overtaken, shared>>
    BY <1>6 DEF SetReads, history
  <2> QED BY <2>1 DEF SamplesInv
<1>7. CASE SetLoads
  <2>1. /\ setter'.step = "loaded" /\ setter'.copy.rounds = file.rounds
        /\ UNCHANGED <<file, task, sampled, overtaken>> /\ (shared => shared')
    BY <1>7, SetLoadsSound DEF SetLoads
  <2> QED BY <2>1 DEF SamplesInv
<1>8. CASE SetRefused
  BY <1>8 DEF SetRefused, NoCall, SamplesInv, history
<1>9. CASE SetCommits
  <2>1. /\ setter'.step = "idle" /\ UNCHANGED <<file, sampled, overtaken, shared>>
        /\ task'.copy = task.copy /\ task'.round = task.round /\ task'.step = task.step
    BY <1>9, SetCommitsSound DEF SetCommits, NoCall
  <2> QED BY <2>1 DEF SamplesInv
<1>10. CASE \E base \in HostConfigs, features \in BOOLEAN : HostConfigures(base, features)
  <2>1. /\ UNCHANGED <<file, setter, sampled, overtaken, shared>>
        /\ task'.copy = task.copy /\ task'.round = task.round /\ task'.step = task.step
    BY <1>10, HostConfiguresSound DEF history
  <2> QED BY <2>1 DEF SamplesInv
<1>11. CASE Crash
  BY <1>11 DEF Crash, NoTask, NoCall, SamplesInv
<1>12. CASE GuardSaves
  <2>1. shared' /\ UNCHANGED task
    BY <1>12, GuardSavesShared DEF GuardSaves, history
  <2> QED BY <2>1 DEF SamplesInv
<1>13. CASE UNCHANGED vars
  BY <1>13 DEF SamplesInv, vars, history
<1> QED BY <1>1, <1>2, <1>3, <1>4, <1>5, <1>6, <1>7, <1>8, <1>9, <1>10, <1>11, <1>12,
           <1>13 DEF Next

\* Whatever calls, failures, crashes and restarts come after it, the samples of
\* a saved round stay in the file, unless a probe wrote while a configuration
\* call held an older copy, or the guard's file was put where the cache is.
THEOREM SamplesKeptAlways == Spec => []SamplesKept
<1>1. Init => SamplesInv
  BY DEF Init, SamplesInv, NoTask, NoCall
<1>2. SamplesInv => SamplesKept
  BY DEF SamplesInv, SamplesKept
<1> QED BY <1>1, <1>2, NextSamples, CacheAlwaysSound, AlwaysPrepared, PTL DEF Spec

-----------------------------------------------------------------------------
\* What the file is to hold: from the write of a call on, what it was given.
Expected == IF setter.step = "written" THEN setter.copy.dynamic ELSE chosen

KeptInv ==
    ~raced /\ ~shared =>
      /\ Loadable => HeldIn(file) = Expected
      /\ task.step # "idle" => task.copy.dynamic = Expected

LEMMA NextKept ==
    ASSUME CacheInv, PreparedInv, KeptInv, [Next]_vars
    PROVE  KeptInv'
<1>1. CASE \E background \in BOOLEAN : TaskLoads(background)
  <2>1. /\ task'.copy.dynamic = HeldIn(file) /\ Loadable
        /\ UNCHANGED <<file, setter, chosen, raced, shared>>
    BY <1>1, TaskLoadsSound, FileRead DEF TaskLoads, history, CacheInv
  <2> QED BY <2>1 DEF KeptInv, Expected, HeldIn, Loadable
<1>2. CASE TaskApplies \/ TaskStops \/ TaskChecks
  <2>1. /\ UNCHANGED <<file, setter, chosen, raced, shared>>
        /\ task'.step # "idle" => task.step # "idle" /\ task'.copy = task.copy
    BY <1>2, TaskGoesSound DEF history
  <2> QED BY <2>1 DEF KeptInv, Expected, HeldIn, Loadable
<1>3. CASE \E outcome \in Outcomes : TaskWrites(outcome)
  <2>1. PICK outcome \in Outcomes : TaskWrites(outcome)
    BY <1>3
  <2>2. /\ task.step # "idle" /\ (file' = file \/ file' = task.copy)
        /\ UNCHANGED <<setter, chosen, raced, shared>>
    BY <2>1 DEF TaskWrites, Write
  <2>3. task'.copy = task.copy
    BY <2>1, TaskWritesSound
  <2>4. HeldIn(task.copy) = task.copy.dynamic
    BY <2>2, CopyWritten DEF CacheInv, TaskSound
  <2>5. CASE file' = file
    BY <2>2, <2>3, <2>5 DEF KeptInv, Expected, HeldIn, Loadable
  <2>6. CASE file' = task.copy
    <3>1. HeldIn(file') = task.copy.dynamic
      BY <2>4, <2>6
    <3> QED BY <2>2, <2>3, <3>1 DEF KeptInv, Expected
  <2> QED BY <2>2, <2>5, <2>6
<1>4. CASE \E outcome \in Outcomes : SetSaves(outcome)
  <2>1. PICK outcome \in Outcomes : SetSaves(outcome)
    BY <1>4
  <2>2. /\ setter.step = "loaded"
        /\ file' = IF outcome = "failed" THEN file ELSE setter.copy
        /\ raced' = (raced \/ task.step # "idle" \/ outcome = "unconfirmed")
        /\ UNCHANGED <<task, chosen, shared>>
        /\ IF outcome = "ok" THEN setter'.step = "written" /\ setter'.copy = setter.copy
                             ELSE setter'.step = "idle"
    BY <2>1, SetSavesSound DEF SetSaves, Write
  <2>3. CASE outcome = "ok"
    <3>1. file' = setter.copy
      BY <2>2, <2>3
    <3>2. HeldIn(setter.copy) = setter.copy.dynamic
      <4>1. setter.copy.kind = "document" /\ setter.copy.dynamic \in DynamicConfigs
        BY <2>2 DEF CacheInv, SetterSound, Settled
      <4> QED BY <4>1, DecodedWhole DEF HeldIn
    <3>3. HeldIn(file') = setter.copy.dynamic
      BY <3>1, <3>2
    <3> QED BY <2>2, <2>3, <3>3 DEF KeptInv, Expected
  <2>4. CASE outcome = "failed"
    BY <2>2, <2>4 DEF KeptInv, Expected, HeldIn, Loadable
  <2>5. CASE outcome = "unconfirmed"
    BY <2>2, <2>5 DEF KeptInv
  <2> QED BY <2>3, <2>4, <2>5 DEF Outcomes
<1>5. CASE \E outcome \in Outcomes : Start(outcome)
  <2>1. /\ HeldIn(file') = HeldIn(file) /\ (file'.kind = file.kind \/ Loadable)
        /\ UNCHANGED <<task, setter, chosen, raced, shared>>
    BY <1>5, StartSound DEF Start, history
  <2>2. Loadable' => Loadable
    BY <2>1 DEF Loadable
  <2> QED BY <2>1, <2>2 DEF KeptInv, Expected
<1>6. CASE \E body \in Updates : SetReads(body)
  <2>1. /\ setter.step = "idle" /\ setter'.step = "read"
        /\ UNCHANGED <<file, task, chosen, raced, shared>>
    BY <1>6 DEF SetReads, history
  <2> QED BY <2>1 DEF KeptInv, Expected, HeldIn, Loadable
<1>7. CASE SetLoads
  <2>1. /\ setter.step = "read" /\ setter'.step = "loaded" /\ (shared => shared')
        /\ UNCHANGED <<file, task, chosen, raced>>
    BY <1>7 DEF SetLoads
  <2> QED BY <2>1 DEF KeptInv, Expected, HeldIn, Loadable
<1>8. CASE SetRefused
  BY <1>8 DEF SetRefused, NoCall, KeptInv, Expected, HeldIn, Loadable, history
<1>9. CASE SetCommits
  <2>1. /\ setter.step = "written" /\ setter'.step = "idle"
        /\ chosen' = setter.copy.dynamic /\ UNCHANGED <<file, raced, shared>>
        /\ task'.copy = task.copy /\ task'.step = task.step
    BY <1>9, SetCommitsSound DEF SetCommits, NoCall
  <2> QED BY <2>1 DEF KeptInv, Expected, HeldIn, Loadable
<1>10. CASE \E base \in HostConfigs, features \in BOOLEAN : HostConfigures(base, features)
  <2>1. /\ UNCHANGED <<file, setter, chosen, raced, shared>>
        /\ task'.copy = task.copy /\ task'.step = task.step
    BY <1>10, HostConfiguresSound DEF history
  <2> QED BY <2>1 DEF KeptInv, Expected, HeldIn, Loadable
<1>11. CASE Crash
  <2>1. /\ chosen' = Expected /\ setter'.step = "idle" /\ task'.step = "idle"
        /\ UNCHANGED <<file, raced, shared>>
    BY <1>11 DEF Crash, Expected, NoTask, NoCall
  <2>2. Expected' = chosen' /\ HeldIn(file') = HeldIn(file) /\ (Loadable' <=> Loadable)
    BY <2>1 DEF Expected, Loadable
  <2> QED BY <2>1, <2>2 DEF KeptInv
<1>12. CASE GuardSaves
  <2>1. shared'
    BY <1>12, GuardSavesShared DEF GuardSaves, history
  <2> QED BY <2>1 DEF KeptInv
<1>13. CASE UNCHANGED vars
  BY <1>13 DEF KeptInv, Expected, HeldIn, Loadable, vars, history
<1> QED BY <1>1, <1>2, <1>3, <1>4, <1>5, <1>6, <1>7, <1>8, <1>9, <1>10, <1>11, <1>12,
           <1>13 DEF Next

\* Unless a call overlaps with a probe, fails after its rename or puts the
\* guard's file where the cache is, the file holds what the last successful call
\* was given, through every probe, crash, restart and refused or failed call.
THEOREM KeptWithoutOverlapAlways == Spec => []KeptWithoutOverlap
<1>1. Init => KeptInv
  BY DEF Init, KeptInv, Expected, HeldIn, Loaded, NoTask, NoCall
<1>2. KeptInv => KeptWithoutOverlap
  BY DEF KeptInv, KeptWithoutOverlap, Expected, HeldIn, Loaded
<1> QED BY <1>1, <1>2, NextKept, CacheAlwaysSound, AlwaysPrepared, PTL DEF Spec

=============================================================================
