-------------------------- MODULE AptSourcesProofs --------------------------
(***************************************************************************)
(* Proofs about AptSources, for any image definitions with any number of   *)
(* extra PPAs, and any number of failures and retries.                     *)
(***************************************************************************)
EXTENDS AptSources, TLAPS

(***************************************************************************)
(* The state functions of a definition, and what they handle.              *)
(***************************************************************************)
NameOf(c, s) == IF s > Len(StepsOf(c)) THEN "none" ELSE StepsOf(c)[s]

WrittenBy(c, name) ==
    CASE name = "create_rootfs" /\ c.rootfs = "seed" -> customizeSourcesList(c, FALSE)
      [] name = "customize_sources_list" -> customizeSourcesList(c, TRUE)
      [] OTHER -> <<>>

HandledBy(c, name) ==
    IF name \in {"add_extra_ppas", "clean_extra_ppas"} THEN c.ppas ELSE <<>>

Names(c) == {c.ppas[i].name : i \in DOMAIN c.ppas}

LEMMA ByName ==
    /\ current = NameOf(imageDef, step)
    /\ sourcesWritten = WrittenBy(imageDef, current)
    /\ ppasHandled = HandledBy(imageDef, current)
    /\ PPANames = Names(imageDef)
    /\ done <=> step > Len(StepsOf(imageDef))
  BY DEF current, Steps, done, sourcesWritten, ppasHandled, PPANames, NameOf,
         WrittenBy, HandledBy, Names

LEMMA ByNamePrimed ==
    /\ current' = NameOf(imageDef', step')
    /\ sourcesWritten' = WrittenBy(imageDef', current')
    /\ ppasHandled' = HandledBy(imageDef', current')
    /\ PPANames' = Names(imageDef')
    /\ done' <=> step' > Len(StepsOf(imageDef'))
  BY DEF current, Steps, done, sourcesWritten, ppasHandled, PPANames, NameOf,
         WrittenBy, HandledBy, Names

LEMMA ElementTypes ==
    ASSUME NEW S, NEW q \in Seq(S)
    PROVE  \A i \in DOMAIN q : q[i] \in S
  OBVIOUS

LEMMA DefinitionTypes ==
    ASSUME NEW c \in Configs
    PROVE  /\ c.rootfs \in {"seed", "tarball"} /\ c.deb822 \in BOOLEAN
           /\ c.buildPocket \in DOMAIN PocketIncludes /\ c.pocket \in DOMAIN PocketIncludes
           /\ Len(c.ppas) \in Nat /\ DOMAIN c.ppas = 1..Len(c.ppas)
           /\ c.ppas # <<>> <=> Len(c.ppas) # 0
           /\ \A i \in DOMAIN c.ppas : c.ppas[i].keepEnabled \in BOOLEAN
           /\ \A i, j \in DOMAIN c.ppas : c.ppas[i].name = c.ppas[j].name => i = j
<1>1. c.ppas \in Seq([name : STRING, keepEnabled : BOOLEAN])
  BY DefinitionAssumption
<1>2. Len(c.ppas) \in Nat /\ DOMAIN c.ppas = 1..Len(c.ppas)
  BY <1>1
<1>3. c.ppas # <<>> <=> Len(c.ppas) # 0
  BY <1>1
<1>4. \A i \in DOMAIN c.ppas : c.ppas[i] \in [name : STRING, keepEnabled : BOOLEAN]
  BY <1>1, ElementTypes
<1>5. QED
  BY <1>2, <1>3, <1>4, DefinitionAssumption

LEMMA Concatenation ==
    ASSUME NEW S, NEW s \in Seq(S), NEW t \in Seq(S)
    PROVE  /\ s \o t \in Seq(S)
           /\ Len(s \o t) = Len(s) + Len(t)
           /\ \A i \in 1..(Len(s) + Len(t)) :
                (s \o t)[i] = IF i <= Len(s) THEN s[i] ELSE t[i - Len(s)]
  OBVIOUS

LEMMA Tuples ==
    ASSUME NEW S, NEW x \in S, NEW y \in S, NEW z \in S
    PROVE  /\ <<>> \in Seq(S) /\ <<x>> \in Seq(S) /\ <<x, y, z>> \in Seq(S)
           /\ Len(<<>>) = 0
           /\ Len(<<x>>) = 1 /\ <<x>>[1] = x
           /\ Len(<<x, y, z>>) = 3
           /\ <<x, y, z>>[1] = x /\ <<x, y, z>>[2] = y /\ <<x, y, z>>[3] = z
  OBVIOUS

StateNames == {"create_rootfs", "upgrade_packages", "add_extra_ppas", "install_packages",
               "clean_extra_ppas", "customize_sources_list"}

Upgrades(c) == c.buildPocket # "release"

LEMMA StepNames ==
    ASSUME NEW c \in Configs, NEW n, n = Len(StepsOf(c))
    PROVE  /\ n = 3 + (IF Upgrades(c) THEN 1 ELSE 0) + (IF c.ppas # <<>> THEN 2 ELSE 0)
           /\ NameOf(c, 1) = "create_rootfs"
           /\ NameOf(c, n) = "customize_sources_list"
           /\ NameOf(c, n + 1) = "none"
           /\ Upgrades(c) => NameOf(c, 2) = "upgrade_packages"
           /\ c.ppas # <<>> => /\ NameOf(c, n - 3) = "add_extra_ppas"
                               /\ NameOf(c, n - 2) = "install_packages"
                               /\ NameOf(c, n - 1) = "clean_extra_ppas"
           /\ c.ppas = <<>> => NameOf(c, n - 1) = "install_packages"
<1> DEFINE a == <<"create_rootfs">>
           b == IF Upgrades(c) THEN <<"upgrade_packages">> ELSE <<>>
           p == IF c.ppas # <<>>
                THEN <<"add_extra_ppas", "install_packages", "clean_extra_ppas">>
                ELSE <<"install_packages">>
           l == <<"customize_sources_list">>
<1>1. /\ a \in Seq(StateNames) /\ l \in Seq(StateNames) /\ Len(a) = 1 /\ Len(l) = 1
      /\ a[1] = "create_rootfs" /\ l[1] = "customize_sources_list"
  BY Tuples DEF StateNames
<1>2. /\ b \in Seq(StateNames)
      /\ Len(b) = IF Upgrades(c) THEN 1 ELSE 0
      /\ Upgrades(c) => b[1] = "upgrade_packages"
  <2>1. CASE Upgrades(c)
    BY <2>1, Tuples DEF StateNames
  <2>2. CASE ~Upgrades(c)
    BY <2>2, Tuples DEF StateNames
  <2>3. QED
    BY <2>1, <2>2
<1>3. /\ p \in Seq(StateNames)
      /\ Len(p) = IF c.ppas # <<>> THEN 3 ELSE 1
      /\ c.ppas # <<>> => /\ p[1] = "add_extra_ppas" /\ p[2] = "install_packages"
                          /\ p[3] = "clean_extra_ppas"
      /\ c.ppas = <<>> => p[1] = "install_packages"
  <2>1. CASE c.ppas # <<>>
    BY <2>1, Tuples DEF StateNames
  <2>2. CASE c.ppas = <<>>
    BY <2>2, Tuples DEF StateNames
  <2>3. QED
    BY <2>1, <2>2
<1>4. StepsOf(c) = ((a \o b) \o p) \o l
  BY DEF StepsOf, Upgrades
<1> HIDE DEF a, b, p, l
<1> DEFINE q == a \o b
           r == q \o p
<1>5. /\ q \in Seq(StateNames) /\ Len(q) = 1 + Len(b) /\ q[1] = "create_rootfs"
      /\ Upgrades(c) => q[2] = "upgrade_packages"
  <2>1. /\ q \in Seq(StateNames) /\ Len(q) = 1 + Len(b)
        /\ \A i \in 1..(1 + Len(b)) : q[i] = IF i <= 1 THEN a[i] ELSE b[i - 1]
    <3>1. a \in Seq(StateNames) /\ b \in Seq(StateNames) /\ Len(a) = 1
      BY <1>1, <1>2
    <3>2. /\ q \in Seq(StateNames) /\ Len(q) = Len(a) + Len(b)
          /\ \A i \in 1..(Len(a) + Len(b)) :
                q[i] = IF i <= Len(a) THEN a[i] ELSE b[i - Len(a)]
      BY <3>1, Concatenation
    <3> HIDE DEF q
    <3>3. QED
      BY <3>1, <3>2
  <2> HIDE DEF q
  <2>2. QED
    BY <1>1, <1>2, <2>1
<1> HIDE DEF q
<1>6. /\ r \in Seq(StateNames) /\ Len(r) = Len(q) + Len(p)
      /\ \A i \in 1..(Len(q) + Len(p)) : r[i] = IF i <= Len(q) THEN q[i] ELSE p[i - Len(q)]
  <2>1. q \in Seq(StateNames) /\ p \in Seq(StateNames)
    BY <1>3, <1>5
  <2>2. QED
    BY <2>1, Concatenation
<1> HIDE DEF r
<1>7. /\ Len(r \o l) = Len(r) + 1
      /\ \A i \in 1..(Len(r) + 1) : (r \o l)[i] = IF i <= Len(r) THEN r[i] ELSE l[i - Len(r)]
  BY <1>1, <1>6, Concatenation
<1>8. StepsOf(c) = r \o l
  BY <1>4 DEF q, r
<1>9. /\ n = 3 + (IF Upgrades(c) THEN 1 ELSE 0)
              + (IF c.ppas # <<>> THEN 2 ELSE 0)
      /\ n \in 3..6 /\ Len(r) = n - 1 /\ Len(q) \in {1, 2}
      /\ Len(q) = IF Upgrades(c) THEN 2 ELSE 1
  <2>1. /\ Len(q) = 1 + Len(b) /\ Len(b) = IF Upgrades(c) THEN 1 ELSE 0
    BY <1>2, <1>5
  <2>2. /\ Len(r) = Len(q) + Len(p) /\ Len(p) = IF c.ppas # <<>> THEN 3 ELSE 1
    BY <1>3, <1>6
  <2>3. n = Len(r) + 1
    BY <1>7, <1>8
  <2> DEFINE u == IF Upgrades(c) THEN 1 ELSE 0
             k == IF c.ppas # <<>> THEN 3 ELSE 1
  <2>4. u \in {0, 1} /\ k \in {1, 3}
    OBVIOUS
  <2>5. /\ (IF c.ppas # <<>> THEN 2 ELSE 0) = k - 1
        /\ (IF Upgrades(c) THEN 2 ELSE 1) = u + 1
    OBVIOUS
  <2>6. Len(q) = 1 + u /\ Len(r) = 1 + u + k
    BY <2>1, <2>2, <2>4
  <2> HIDE DEF u, k
  <2>7. /\ n = 3 + u + (k - 1) /\ n \in 3..6 /\ Len(r) = n - 1
        /\ Len(q) \in {1, 2} /\ Len(q) = u + 1
    BY <2>3, <2>4, <2>6
  <2>8. QED
    BY <2>5, <2>7 DEF u
<1>10. /\ n \in 3..6 /\ Len(r) = n - 1 /\ Len(q) \in {1, 2}
      /\ Len(q) = IF Upgrades(c) THEN 2 ELSE 1
  BY <1>9
<1>11. \A i \in 1..n : NameOf(c, i) = IF i <= n - 1 THEN r[i] ELSE l[i - (n - 1)]
  <2>1. n = Len(r) + 1 /\ Len(r) = n - 1
    BY <1>10
  <2>2. \A i \in 1..n : (r \o l)[i] = IF i <= n - 1 THEN r[i] ELSE l[i - (n - 1)]
    BY <1>7, <2>1
  <2>3. \A i \in 1..n : NameOf(c, i) = StepsOf(c)[i]
    BY <1>10 DEF NameOf
  <2>4. QED
    BY <1>8, <2>2, <2>3
<1>12. n \in 1..n /\ ~(n <= n - 1) /\ n - (n - 1) = 1 /\ n + 1 > n
      /\ \A i \in 1..(n - 1) : i \in 1..n /\ i <= n - 1
  BY <1>10
<1>13. /\ NameOf(c, n + 1) = "none" /\ NameOf(c, n) = "customize_sources_list"
       /\ \A i \in 1..(n - 1) : NameOf(c, i) = r[i]
  <2>1. NameOf(c, n + 1) = "none"
    BY <1>10, <1>12 DEF NameOf
  <2>2. NameOf(c, n) = "customize_sources_list"
    BY <1>1, <1>11, <1>12
  <2>3. \A i \in 1..(n - 1) : NameOf(c, i) = r[i]
    BY <1>11, <1>12
  <2>4. QED
    BY <2>1, <2>2, <2>3
<1>14. NameOf(c, 1) = "create_rootfs"
       /\ (Upgrades(c) => NameOf(c, 2) = "upgrade_packages")
  BY <1>5, <1>6, <1>3, <1>10, <1>13
<1>15. CASE c.ppas # <<>>
  <2>1. r[Len(q) + 1] = p[1] /\ r[Len(q) + 2] = p[2] /\ r[Len(q) + 3] = p[3]
    BY <1>3, <1>6, <1>10, <1>15
  <2>2. Len(q) + 3 = n - 1
    BY <1>9, <1>10, <1>15
  <2>3. QED
    BY <1>3, <1>9, <1>10, <1>13, <1>14, <1>15, <2>1, <2>2
<1>16. CASE c.ppas = <<>>
  <2>1. r[Len(q) + 1] = p[1] /\ Len(q) + 1 = n - 1
    BY <1>3, <1>6, <1>9, <1>10, <1>16
  <2>2. QED
    BY <1>3, <1>9, <1>10, <1>13, <1>14, <1>16, <2>1
<1>17. QED
  BY <1>15, <1>16

LEMMA Lengths ==
    ASSUME NEW c \in Configs
    PROVE  /\ Len(StepsOf(c)) \in 3..6
           /\ Len(StepsOf(c)) = (IF Len(c.ppas) # 0 THEN 5 ELSE 3)
                                  + (IF Upgrades(c) THEN 1 ELSE 0)
<1>1. Len(StepsOf(c)) = 3 + (IF Upgrades(c) THEN 1 ELSE 0)
                          + (IF c.ppas # <<>> THEN 2 ELSE 0)
  BY StepNames
<1>2. c.ppas # <<>> <=> Len(c.ppas) # 0
  BY DefinitionTypes
<1>3. QED
  BY <1>1, <1>2

\* The place of every state function in the list.
LEMMA Places ==
    ASSUME NEW c \in Configs, NEW s \in Nat, s >= 1, s <= Len(StepsOf(c)) + 1
    PROVE  /\ NameOf(c, s) \in StateNames \cup {"none"}
           /\ NameOf(c, s) = "create_rootfs" <=> s = 1
           /\ NameOf(c, s) = "upgrade_packages" <=> (Upgrades(c) /\ s = 2)
           /\ NameOf(c, s) = "add_extra_ppas" <=>
                (Len(c.ppas) # 0 /\ s = Len(StepsOf(c)) - 3)
           /\ NameOf(c, s) = "install_packages" <=>
                s = Len(StepsOf(c)) - (IF Len(c.ppas) # 0 THEN 2 ELSE 1)
           /\ NameOf(c, s) = "clean_extra_ppas" <=>
                (Len(c.ppas) # 0 /\ s = Len(StepsOf(c)) - 1)
           /\ NameOf(c, s) = "customize_sources_list" <=> s = Len(StepsOf(c))
           /\ NameOf(c, s) = "none" <=> s = Len(StepsOf(c)) + 1
<1> DEFINE n == Len(StepsOf(c))
<1>1. n = (IF Len(c.ppas) # 0 THEN 5 ELSE 3) + (IF Upgrades(c) THEN 1 ELSE 0)
  BY Lengths
<1>2. /\ NameOf(c, 1) = "create_rootfs"
      /\ NameOf(c, n) = "customize_sources_list" /\ NameOf(c, n + 1) = "none"
      /\ Upgrades(c) => NameOf(c, 2) = "upgrade_packages"
      /\ Len(c.ppas) # 0 => /\ NameOf(c, n - 3) = "add_extra_ppas"
                            /\ NameOf(c, n - 2) = "install_packages"
                            /\ NameOf(c, n - 1) = "clean_extra_ppas"
      /\ Len(c.ppas) = 0 => NameOf(c, n - 1) = "install_packages"
  <2>1. c.ppas # <<>> <=> Len(c.ppas) # 0
    BY DefinitionTypes
  <2>2. /\ NameOf(c, 1) = "create_rootfs"
        /\ NameOf(c, n) = "customize_sources_list" /\ NameOf(c, n + 1) = "none"
        /\ Upgrades(c) => NameOf(c, 2) = "upgrade_packages"
    BY StepNames
  <2>3. c.ppas # <<>> => /\ NameOf(c, n - 3) = "add_extra_ppas"
                        /\ NameOf(c, n - 2) = "install_packages"
                        /\ NameOf(c, n - 1) = "clean_extra_ppas"
    BY StepNames
  <2>4. c.ppas = <<>> => NameOf(c, n - 1) = "install_packages"
    BY StepNames
  <2> HIDE DEF n
  <2>5. QED
    BY <2>1, <2>2, <2>3, <2>4
<1> HIDE DEF n
<1>3. s \in Nat /\ s >= 1 /\ s <= n + 1
  BY DEF n
<1>4. CASE Len(c.ppas) # 0 /\ Upgrades(c)
  <2>1. n = 6 /\ s \in 1..7
    BY <1>1, <1>3, <1>4
  <2>2. /\ NameOf(c, 1) = "create_rootfs"
        /\ NameOf(c, 2) = "upgrade_packages"
        /\ NameOf(c, 3) = "add_extra_ppas"
        /\ NameOf(c, 4) = "install_packages"
        /\ NameOf(c, 5) = "clean_extra_ppas"
        /\ NameOf(c, 6) = "customize_sources_list"
        /\ NameOf(c, 7) = "none"
    BY <1>2, <1>4, <2>1
  <2>3. QED
    BY <1>4, <2>1, <2>2 DEF n, StateNames
<1>5. CASE Len(c.ppas) # 0 /\ ~Upgrades(c)
  <2>1. n = 5 /\ s \in 1..6
    BY <1>1, <1>3, <1>5
  <2>2. /\ NameOf(c, 1) = "create_rootfs"
        /\ NameOf(c, 2) = "add_extra_ppas"
        /\ NameOf(c, 3) = "install_packages"
        /\ NameOf(c, 4) = "clean_extra_ppas"
        /\ NameOf(c, 5) = "customize_sources_list"
        /\ NameOf(c, 6) = "none"
    BY <1>2, <1>5, <2>1
  <2>3. QED
    BY <1>5, <2>1, <2>2 DEF n, StateNames
<1>6. CASE Len(c.ppas) = 0 /\ Upgrades(c)
  <2>1. n = 4 /\ s \in 1..5
    BY <1>1, <1>3, <1>6
  <2>2. /\ NameOf(c, 1) = "create_rootfs"
        /\ NameOf(c, 2) = "upgrade_packages"
        /\ NameOf(c, 3) = "install_packages"
        /\ NameOf(c, 4) = "customize_sources_list"
        /\ NameOf(c, 5) = "none"
    BY <1>2, <1>6, <2>1
  <2>3. QED
    BY <1>6, <2>1, <2>2 DEF n, StateNames
<1>7. CASE Len(c.ppas) = 0 /\ ~Upgrades(c)
  <2>1. n = 3 /\ s \in 1..4
    BY <1>1, <1>3, <1>7
  <2>2. /\ NameOf(c, 1) = "create_rootfs"
        /\ NameOf(c, 2) = "install_packages"
        /\ NameOf(c, 3) = "customize_sources_list"
        /\ NameOf(c, 4) = "none"
    BY <1>2, <1>7, <2>1
  <2>3. QED
    BY <1>7, <2>1, <2>2 DEF n, StateNames
<1>8. QED
  BY <1>4, <1>5, <1>6, <1>7

-----------------------------------------------------------------------------
(***************************************************************************)
(* The sources written.                                                    *)
(***************************************************************************)
Ours == {e \in Entries : e.mirror # "elsewhere"}

Suites(entries) == {e.suite : e \in entries}

LEMMA EntryTypes ==
    ASSUME NEW m \in {"mirror", "security mirror"}, NEW s \in Pockets,
           NEW l \in {"rootfs", "customization"}
    PROVE  Entry(m, s, l) \in Ours /\ Entry(m, s, l).suite = s
  BY DEF Entry, Ours, Entries

LEMMA Lowered ==
    ASSUME NEW p \in DOMAIN PocketIncludes
    PROVE  /\ ToLower(p) \in Pockets
           /\ PocketIncludes[p] = PocketIncludes[ToLower(p)]
  BY DEF PocketIncludes, ToLower, Pockets

LEMMA LegacyEntries ==
    ASSUME NEW c \in Configs, NEW target \in BOOLEAN
    PROVE  /\ legacySourcesList(c, target) \subseteq Ours
           /\ SuitesOf(legacySourcesList(c, target)) =
                PocketIncludes[IF target THEN c.pocket ELSE c.buildPocket]
<1> DEFINE written == IF target THEN c.pocket ELSE c.buildPocket
           pocket == ToLower(written)
           list == legacySourcesList(c, target)
           release == Entry("mirror", "release", "customization")
           security == Entry(securityMirror(c), "security", "customization")
           updates == Entry("mirror", "updates", "customization")
           proposed == Entry("mirror", "proposed", "customization")
<1>1. written \in DOMAIN PocketIncludes
  BY DefinitionTypes
<1>2. pocket \in Pockets /\ PocketIncludes[written] = PocketIncludes[pocket]
  BY <1>1, Lowered
<1>3. securityMirror(c) \in {"mirror", "security mirror"}
  BY DEF securityMirror
<1>4. /\ release \in Ours /\ release.suite = "release"
      /\ security \in Ours /\ security.suite = "security"
      /\ updates \in Ours /\ updates.suite = "updates"
      /\ proposed \in Ours /\ proposed.suite = "proposed"
  BY <1>3, EntryTypes DEF Pockets
<1>5. list = CASE pocket = "release"  -> {release}
               [] pocket = "security" -> {release, security}
               [] pocket = "updates"  -> {release, security, updates}
               [] pocket = "proposed" -> {release, security, updates, proposed}
               [] OTHER -> {}
  BY DEF legacySourcesList, generateLegacySourcesList
<1> HIDE DEF release, security, updates, proposed, list, pocket, written
<1>6. list \subseteq Ours
  BY <1>2, <1>4, <1>5 DEF Pockets
<1>7. SuitesOf(list) = PocketIncludes[pocket]
  <2>1. CASE pocket = "release"
    BY <2>1, <1>4, <1>5 DEF SuitesOf, PocketIncludes
  <2>2. CASE pocket = "security"
    BY <2>2, <1>4, <1>5 DEF SuitesOf, PocketIncludes
  <2>3. CASE pocket = "updates"
    BY <2>3, <1>4, <1>5 DEF SuitesOf, PocketIncludes
  <2>4. CASE pocket = "proposed"
    BY <2>4, <1>4, <1>5 DEF SuitesOf, PocketIncludes
  <2>5. QED
    BY <1>2, <2>1, <2>2, <2>3, <2>4 DEF Pockets
<1>8. QED
  BY <1>2, <1>6, <1>7 DEF written, list

LEMMA SectionEntries ==
    ASSUME NEW m \in {"mirror", "security mirror"}, NEW p \in Pockets
    PROVE  /\ generateDeb822Section(m, "rootfs", p) \subseteq Ours
           /\ SuitesOf(generateDeb822Section(m, "rootfs", p)) =
                IF p = "security" THEN {"security"} ELSE PocketIncludes[p] \ {"security"}
<1> DEFINE suites == CASE p = "security" -> {"security"}
                       [] p = "proposed" -> {"proposed", "updates", "release"}
                       [] p = "updates"  -> {"updates", "release"}
                       [] p = "release"  -> {"release"}
                       [] OTHER -> {}
           section == {Entry(m, s, "rootfs") : s \in suites}
<1>1. suites \subseteq Pockets
  BY DEF Pockets
<1>2. suites = IF p = "security" THEN {"security"} ELSE PocketIncludes[p] \ {"security"}
  <2>1. CASE p = "security"
    BY <2>1
  <2>2. CASE p = "proposed"
    BY <2>2 DEF PocketIncludes
  <2>3. CASE p = "updates"
    BY <2>3 DEF PocketIncludes
  <2>4. CASE p = "release"
    BY <2>4 DEF PocketIncludes
  <2>5. QED
    BY <2>1, <2>2, <2>3, <2>4 DEF Pockets
<1>3. generateDeb822Section(m, "rootfs", p) = section
  BY DEF generateDeb822Section
<1> HIDE DEF suites
<1>4. \A s \in suites : Entry(m, s, "rootfs") \in Ours /\ Entry(m, s, "rootfs").suite = s
  BY <1>1, EntryTypes
<1>5. section \subseteq Ours /\ SuitesOf(section) = suites
  BY <1>4 DEF SuitesOf
<1>6. QED
  BY <1>2, <1>3, <1>5

LEMMA Deb822Entries ==
    ASSUME NEW c \in Configs, NEW target \in BOOLEAN
    PROVE  /\ deb822SourcesList(c, target) \subseteq Ours
           /\ ToLower(IF target THEN c.pocket ELSE c.buildPocket) # "security" =>
                SuitesOf(deb822SourcesList(c, target)) =
                  PocketIncludes[IF target THEN c.pocket ELSE c.buildPocket]
                    \cup {"security"}
<1> DEFINE written == IF target THEN c.pocket ELSE c.buildPocket
           pocket == ToLower(written)
           archive == generateDeb822Section("mirror", "rootfs", pocket)
           security == generateDeb822Section(securityMirror(c), "rootfs", "security")
<1>1. written \in DOMAIN PocketIncludes
  BY DefinitionTypes
<1>2. pocket \in Pockets /\ PocketIncludes[written] = PocketIncludes[pocket]
  BY <1>1, Lowered
<1>3. securityMirror(c) \in {"mirror", "security mirror"}
  BY DEF securityMirror
<1>4. /\ archive \subseteq Ours
      /\ SuitesOf(archive) = IF pocket = "security" THEN {"security"}
                             ELSE PocketIncludes[pocket] \ {"security"}
  BY <1>2, SectionEntries
<1>5. security \subseteq Ours /\ SuitesOf(security) = {"security"}
  BY <1>3, SectionEntries DEF Pockets
<1>6. deb822SourcesList(c, target) = archive \cup security
  BY DEF deb822SourcesList
<1> HIDE DEF archive, security, written, pocket
<1>7. SuitesOf(archive \cup security) = SuitesOf(archive) \cup SuitesOf(security)
  BY DEF SuitesOf
<1>8. QED
  BY <1>2, <1>4, <1>5, <1>6, <1>7 DEF written, pocket

LEMMA Writes ==
    ASSUME NEW c \in Configs, NEW target \in BOOLEAN
    PROVE  LET list == customizeSourcesList(c, target) IN
           /\ c.deb822 => /\ DOMAIN list = 1..2 /\ Len(list) = 2
                          /\ list[1].file = "ubuntu.sources"
                          /\ list[1].content = deb822SourcesList(c, target)
                          /\ list[2].file = "sources.list" /\ list[2].content = {}
           /\ ~c.deb822 => /\ DOMAIN list = 1..1 /\ Len(list) = 1
                           /\ list[1].file = "sources.list"
                           /\ list[1].content = legacySourcesList(c, target)
<1>1. CASE c.deb822
  BY <1>1 DEF customizeSourcesList
<1>2. CASE ~c.deb822
  BY <1>2 DEF customizeSourcesList
<1>3. QED
  BY <1>1, <1>2

\* What the state functions handle: sources or PPAs, not both.
LEMMA Handling ==
    ASSUME NEW c \in Configs, NEW n
    PROVE  /\ WrittenBy(c, n) \in {<<>>, customizeSourcesList(c, TRUE),
                                   customizeSourcesList(c, FALSE)}
           /\ Len(WrittenBy(c, n)) \in 0..2
           /\ DOMAIN WrittenBy(c, n) = 1..Len(WrittenBy(c, n))
           /\ Len(HandledBy(c, n)) \in Nat
           /\ DOMAIN HandledBy(c, n) = 1..Len(HandledBy(c, n))
           /\ n \in {"add_extra_ppas", "clean_extra_ppas"} =>
                HandledBy(c, n) = c.ppas /\ Len(WrittenBy(c, n)) = 0
           /\ n \notin {"add_extra_ppas", "clean_extra_ppas"} => Len(HandledBy(c, n)) = 0
           /\ n \notin {"create_rootfs", "customize_sources_list"} =>
                Len(WrittenBy(c, n)) = 0
<1>1. WrittenBy(c, n) \in {<<>>, customizeSourcesList(c, TRUE),
                           customizeSourcesList(c, FALSE)}
  BY DEF WrittenBy
<1>2. \A target \in BOOLEAN :
        /\ Len(customizeSourcesList(c, target)) \in 0..2
        /\ DOMAIN customizeSourcesList(c, target) =
              1..Len(customizeSourcesList(c, target))
  <2> TAKE target \in BOOLEAN
  <2>1. CASE c.deb822
    BY <2>1, Writes
  <2>2. CASE ~c.deb822
    BY <2>2, Writes
  <2>3. QED
    BY <2>1, <2>2
<1>3. Len(<<>>) = 0 /\ DOMAIN <<>> = 1..0
  OBVIOUS
<1>4. Len(WrittenBy(c, n)) \in 0..2 /\ DOMAIN WrittenBy(c, n) = 1..Len(WrittenBy(c, n))
  <2>1. CASE WrittenBy(c, n) = <<>>
    BY <2>1
  <2>2. CASE WrittenBy(c, n) = customizeSourcesList(c, TRUE)
    BY <2>2, <1>2
  <2>3. CASE WrittenBy(c, n) = customizeSourcesList(c, FALSE)
    BY <2>3, <1>2
  <2>4. QED
    BY <1>1, <2>1, <2>2, <2>3
<1>5. n \notin {"create_rootfs", "customize_sources_list"} => WrittenBy(c, n) = <<>>
  BY DEF WrittenBy
<1>6. /\ n \in {"add_extra_ppas", "clean_extra_ppas"} => HandledBy(c, n) = c.ppas
      /\ n \notin {"add_extra_ppas", "clean_extra_ppas"} => HandledBy(c, n) = <<>>
  BY DEF HandledBy
<1>7. Len(c.ppas) \in Nat /\ DOMAIN c.ppas = 1..Len(c.ppas)
  BY DefinitionTypes
<1>8. QED
  BY <1>1, <1>3, <1>4, <1>5, <1>6, <1>7

-----------------------------------------------------------------------------
(***************************************************************************)
(* Types.                                                                  *)
(***************************************************************************)
Control ==
    /\ imageDef \in Configs
    /\ step \in Nat /\ step >= 1 /\ step <= Len(StepsOf(imageDef)) + 1
    /\ item \in Nat /\ item >= 1
    /\ item <= Len(sourcesWritten) + Len(ppasHandled) + 1

FilesType == /\ files \in [Files -> SUBSET Entries]
             /\ original \in [Files -> SUBSET Entries]

PPAsType ==
    /\ ppaFiles \subseteq Names(imageDef) /\ keys \subseteq Names(imageDef)
    /\ error \in {"none", "environment", "missing", "exists"}
    /\ failures \in 0..MaxFailures

UsedType ==
    /\ used.entries \subseteq Entries /\ used.ppas \subseteq Names(imageDef)
    /\ used.early \in BOOLEAN /\ retargeted \in BOOLEAN

Types == Control /\ FilesType /\ PPAsType /\ UsedType

LEMMA TypesAreTypeOK == Types => TypeOK
<1> SUFFICES ASSUME Types PROVE TypeOK
  OBVIOUS
<1>1. /\ imageDef \in Configs /\ Len(StepsOf(imageDef)) \in Nat
      /\ Len(sourcesWritten) \in Nat /\ Len(ppasHandled) \in Nat
  BY Lengths, Handling, ByName DEF Types, Control
<1>2. step \in 1..(Len(Steps) + 1) /\ item \in 1..(Items + 1)
  BY <1>1 DEF Types, Control, Steps, Items
<1>3. {used.early, retargeted} \subseteq BOOLEAN
  BY DEF Types, UsedType
<1>4. QED
  BY <1>1, <1>2, <1>3, ByName DEF Types, FilesType, PPAsType, UsedType, TypeOK

\* Where the process is, as the place of its state function in the list.
LEMMA Stages ==
    ASSUME Control
    PROVE  /\ current \in StateNames \cup {"none"}
           /\ current = "create_rootfs" <=> step = 1
           /\ done <=> current = "none"
           /\ Len(StepsOf(imageDef)) \in Nat /\ Len(imageDef.ppas) \in Nat
           /\ Len(sourcesWritten) \in 0..2 /\ Len(ppasHandled) \in Nat
           /\ DOMAIN sourcesWritten = 1..Len(sourcesWritten)
           /\ DOMAIN ppasHandled = 1..Len(ppasHandled)
           /\ current \in {"add_extra_ppas", "clean_extra_ppas"} =>
                /\ ppasHandled = imageDef.ppas /\ Len(sourcesWritten) = 0
                /\ Len(imageDef.ppas) # 0
           /\ current \notin {"add_extra_ppas", "clean_extra_ppas"} =>
                Len(ppasHandled) = 0
           /\ current \notin {"create_rootfs", "customize_sources_list"} =>
                Len(sourcesWritten) = 0
<1>1. /\ imageDef \in Configs /\ step \in Nat /\ step >= 1
      /\ step <= Len(StepsOf(imageDef)) + 1
  BY DEF Control
<1>2. /\ current = NameOf(imageDef, step)
      /\ sourcesWritten = WrittenBy(imageDef, current)
      /\ ppasHandled = HandledBy(imageDef, current)
      /\ done <=> step > Len(StepsOf(imageDef))
  BY ByName
<1>3. Len(StepsOf(imageDef)) \in Nat /\ Len(imageDef.ppas) \in Nat
  BY <1>1, Lengths, DefinitionTypes
<1>4. /\ NameOf(imageDef, step) \in StateNames \cup {"none"}
      /\ NameOf(imageDef, step) = "create_rootfs" <=> step = 1
      /\ NameOf(imageDef, step) = "none" <=> step = Len(StepsOf(imageDef)) + 1
      /\ NameOf(imageDef, step) \in {"add_extra_ppas", "clean_extra_ppas"} =>
           Len(imageDef.ppas) # 0
  BY <1>1, Places
<1>5. done <=> current = "none"
  BY <1>1, <1>2, <1>3, <1>4
<1>6. QED
  BY <1>1, <1>2, <1>3, <1>4, <1>5, Handling

LEMMA StagesPrimed ==
    ASSUME Control'
    PROVE  /\ current' \in StateNames \cup {"none"}
           /\ current' = "create_rootfs" <=> step' = 1
           /\ done' <=> current' = "none"
<1>1. /\ imageDef' \in Configs /\ step' \in Nat /\ step' >= 1
      /\ step' <= Len(StepsOf(imageDef')) + 1
  BY DEF Control
<1>2. Len(StepsOf(imageDef')) \in Nat
  BY <1>1, Lengths
<1>3. /\ NameOf(imageDef', step') \in StateNames \cup {"none"}
      /\ NameOf(imageDef', step') = "create_rootfs" <=> step' = 1
      /\ NameOf(imageDef', step') = "none" <=> step' = Len(StepsOf(imageDef')) + 1
  BY <1>1, Places
<1>4. QED
  BY <1>1, <1>2, <1>3, ByNamePrimed

\* Within a state function.
LEMMA StageKept ==
    ASSUME imageDef' = imageDef, step' = step
    PROVE  /\ current' = current /\ sourcesWritten' = sourcesWritten
           /\ ppasHandled' = ppasHandled /\ (done' <=> done)
  BY DEF current, Steps, done, sourcesWritten, ppasHandled

\* To the next state function.
LEMMA Advance ==
    ASSUME Control, imageDef' = imageDef, step' = step + 1, ~done
    PROVE  /\ current = "create_rootfs" =>
                current' \in {"upgrade_packages", "add_extra_ppas", "install_packages"}
           /\ current = "upgrade_packages" =>
                current' \in {"add_extra_ppas", "install_packages"}
           /\ current' = "install_packages" =>
                current = "add_extra_ppas" \/ Len(imageDef.ppas) = 0
           /\ current = "add_extra_ppas" => current' = "install_packages"
           /\ current = "install_packages" =>
                current' = IF Len(imageDef.ppas) # 0 THEN "clean_extra_ppas"
                           ELSE "customize_sources_list"
           /\ current = "clean_extra_ppas" => current' = "customize_sources_list"
           /\ current = "customize_sources_list" => current' = "none"
<1> DEFINE n == Len(StepsOf(imageDef))
<1>1. /\ imageDef \in Configs /\ step \in Nat /\ step >= 1 /\ step <= n
      /\ n \in 3..6 /\ Len(imageDef.ppas) \in Nat
      /\ n = (IF Len(imageDef.ppas) # 0 THEN 5 ELSE 3)
               + (IF Upgrades(imageDef) THEN 1 ELSE 0)
  BY Stages, ByName, Lengths DEF Control
<1>2. current = NameOf(imageDef, step) /\ current' = NameOf(imageDef, step + 1)
  BY ByName, ByNamePrimed
<1>3. \A s \in {step, step + 1} : s \in Nat /\ s >= 1 /\ s <= n + 1
  BY <1>1
<1>4. CASE Len(imageDef.ppas) # 0
  <2>1. /\ current = "create_rootfs" <=> step = 1
        /\ current = "upgrade_packages" <=> (Upgrades(imageDef) /\ step = 2)
        /\ current = "add_extra_ppas" <=> step = n - 3
        /\ current = "install_packages" <=> step = n - 2
        /\ current = "clean_extra_ppas" <=> step = n - 1
        /\ current = "customize_sources_list" <=> step = n
        /\ current = "none" <=> step = n + 1
        /\ current \in StateNames \cup {"none"}
    BY <1>1, <1>2, <1>3, <1>4, Places
  <2>2. /\ current' = "create_rootfs" <=> step + 1 = 1
        /\ current' = "upgrade_packages" <=> (Upgrades(imageDef) /\ step + 1 = 2)
        /\ current' = "add_extra_ppas" <=> step + 1 = n - 3
        /\ current' = "install_packages" <=> step + 1 = n - 2
        /\ current' = "clean_extra_ppas" <=> step + 1 = n - 1
        /\ current' = "customize_sources_list" <=> step + 1 = n
        /\ current' = "none" <=> step + 1 = n + 1
        /\ current' \in StateNames \cup {"none"}
    BY <1>1, <1>2, <1>3, <1>4, Places
  <2> HIDE DEF n
  <2>3. QED
    BY <1>1, <1>3, <1>4, <2>1, <2>2 DEF StateNames
<1>5. CASE Len(imageDef.ppas) = 0
  <2>1. /\ current = "create_rootfs" <=> step = 1
        /\ current = "upgrade_packages" <=> (Upgrades(imageDef) /\ step = 2)
        /\ current \notin {"add_extra_ppas", "clean_extra_ppas"}
        /\ current = "install_packages" <=> step = n - 1
        /\ current = "customize_sources_list" <=> step = n
        /\ current = "none" <=> step = n + 1
        /\ current \in StateNames \cup {"none"}
    BY <1>1, <1>2, <1>3, <1>5, Places
  <2>2. /\ current' = "create_rootfs" <=> step + 1 = 1
        /\ current' = "upgrade_packages" <=> (Upgrades(imageDef) /\ step + 1 = 2)
        /\ current' \notin {"add_extra_ppas", "clean_extra_ppas"}
        /\ current' = "install_packages" <=> step + 1 = n - 1
        /\ current' = "customize_sources_list" <=> step + 1 = n
        /\ current' = "none" <=> step + 1 = n + 1
        /\ current' \in StateNames \cup {"none"}
    BY <1>1, <1>2, <1>3, <1>5, Places
  <2> HIDE DEF n
  <2>3. QED
    BY <1>1, <1>3, <1>5, <2>1, <2>2 DEF StateNames
<1>6. QED
  BY <1>1, <1>4, <1>5

\* The names of an earlier place and of a later one.
LEMMA Backwards ==
    ASSUME NEW c \in Configs, NEW s \in Nat, NEW t \in Nat,
           t >= 2, t <= s, s <= Len(StepsOf(c)) + 1
    PROVE  /\ NameOf(c, t) # "create_rootfs" /\ NameOf(c, s) # "create_rootfs"
           /\ NameOf(c, t) \in StateNames \cup {"none"}
           /\ NameOf(c, t) = "install_packages" =>
                NameOf(c, s) \notin {"upgrade_packages", "add_extra_ppas"}
           /\ NameOf(c, t) = "clean_extra_ppas" =>
                NameOf(c, s) \in {"clean_extra_ppas", "customize_sources_list", "none"}
           /\ NameOf(c, t) = "customize_sources_list" =>
                NameOf(c, s) \in {"customize_sources_list", "none"}
           /\ NameOf(c, t) = "none" => NameOf(c, s) = "none"
<1> DEFINE n == Len(StepsOf(c))
<1>1. /\ s >= 1 /\ s <= n + 1 /\ t >= 1 /\ t <= n + 1 /\ n \in 3..6
      /\ n = (IF Len(c.ppas) # 0 THEN 5 ELSE 3) + (IF Upgrades(c) THEN 1 ELSE 0)
  BY Lengths
<1>2. CASE Len(c.ppas) # 0
  <2>1. /\ NameOf(c, s) = "create_rootfs" <=> s = 1
        /\ NameOf(c, s) = "upgrade_packages" <=> (Upgrades(c) /\ s = 2)
        /\ NameOf(c, s) = "add_extra_ppas" <=> s = n - 3
        /\ NameOf(c, s) = "install_packages" <=> s = n - 2
        /\ NameOf(c, s) = "clean_extra_ppas" <=> s = n - 1
        /\ NameOf(c, s) = "customize_sources_list" <=> s = n
        /\ NameOf(c, s) = "none" <=> s = n + 1
        /\ NameOf(c, s) \in StateNames \cup {"none"}
    BY <1>1, <1>2, Places
  <2>2. /\ NameOf(c, t) = "create_rootfs" <=> t = 1
        /\ NameOf(c, t) = "upgrade_packages" <=> (Upgrades(c) /\ t = 2)
        /\ NameOf(c, t) = "add_extra_ppas" <=> t = n - 3
        /\ NameOf(c, t) = "install_packages" <=> t = n - 2
        /\ NameOf(c, t) = "clean_extra_ppas" <=> t = n - 1
        /\ NameOf(c, t) = "customize_sources_list" <=> t = n
        /\ NameOf(c, t) = "none" <=> t = n + 1
        /\ NameOf(c, t) \in StateNames \cup {"none"}
    BY <1>1, <1>2, Places
  <2> HIDE DEF n
  <2>3. QED
    BY <1>1, <1>2, <2>1, <2>2 DEF StateNames
<1>3. CASE Len(c.ppas) = 0
  <2>1. /\ NameOf(c, s) = "create_rootfs" <=> s = 1
        /\ NameOf(c, s) = "upgrade_packages" <=> (Upgrades(c) /\ s = 2)
        /\ NameOf(c, s) \notin {"add_extra_ppas", "clean_extra_ppas"}
        /\ NameOf(c, s) = "install_packages" <=> s = n - 1
        /\ NameOf(c, s) = "customize_sources_list" <=> s = n
        /\ NameOf(c, s) = "none" <=> s = n + 1
        /\ NameOf(c, s) \in StateNames \cup {"none"}
    BY <1>1, <1>3, Places
  <2>2. /\ NameOf(c, t) = "create_rootfs" <=> t = 1
        /\ NameOf(c, t) = "upgrade_packages" <=> (Upgrades(c) /\ t = 2)
        /\ NameOf(c, t) \notin {"add_extra_ppas", "clean_extra_ppas"}
        /\ NameOf(c, t) = "install_packages" <=> t = n - 1
        /\ NameOf(c, t) = "customize_sources_list" <=> t = n
        /\ NameOf(c, t) = "none" <=> t = n + 1
        /\ NameOf(c, t) \in StateNames \cup {"none"}
    BY <1>1, <1>3, Places
  <2> HIDE DEF n
  <2>3. QED
    BY <1>1, <1>3, <2>1, <2>2 DEF StateNames
<1>4. QED
  BY <1>2, <1>3

\* To this state function or one before it.
LEMMA GoBack ==
    ASSUME Control, imageDef' = imageDef, step' \in 2..step
    PROVE  /\ current' # "create_rootfs" /\ current # "create_rootfs"
           /\ current' \in StateNames \cup {"none"}
           /\ current' = "install_packages" =>
                current \notin {"upgrade_packages", "add_extra_ppas"}
           /\ current' = "clean_extra_ppas" =>
                current \in {"clean_extra_ppas", "customize_sources_list", "none"}
           /\ current' = "customize_sources_list" =>
                current \in {"customize_sources_list", "none"}
           /\ current' = "none" => current = "none"
<1>1. /\ imageDef \in Configs /\ step \in Nat /\ step <= Len(StepsOf(imageDef)) + 1
      /\ step' \in Nat /\ step' >= 2 /\ step' <= step
  BY Stages, Lengths DEF Control
<1>2. current = NameOf(imageDef, step) /\ current' = NameOf(imageDef, step')
  BY ByName, ByNamePrimed
<1>3. QED
  BY <1>1, <1>2, Backwards

\* What a state function's next item can be.
LEMMA Fits ==
    ASSUME Control
    PROVE  /\ item \in DOMAIN sourcesWritten =>
                item + 1 <= Len(sourcesWritten) + Len(ppasHandled) + 1
           /\ item \in DOMAIN ppasHandled =>
                item + 1 <= Len(sourcesWritten) + Len(ppasHandled) + 1
  BY Stages DEF Control

LEMMA Restart ==
    ASSUME imageDef' \in Configs, item' = 1,
           step' \in Nat, step' >= 1, step' <= Len(StepsOf(imageDef')) + 1
    PROVE  Control'
<1>1. Len(sourcesWritten') \in Nat /\ Len(ppasHandled') \in Nat
  BY ByNamePrimed, Handling
<1>2. item' <= Len(sourcesWritten') + Len(ppasHandled') + 1
  BY <1>1
<1>3. QED
  BY <1>2 DEF Control

LEMMA ControlStep == ASSUME Control, [Next]_vars PROVE Control'
<1>1. CASE WriteSources
  BY <1>1, StageKept, Fits DEF WriteSources, Control
<1>2. CASE AddPPA
  BY <1>2, StageKept, Fits DEF AddPPA, Control
<1>3. CASE RemovePPA
  BY <1>3, StageKept, Fits DEF RemovePPA, Remove, Control
<1>4. CASE upgradePackages \/ installPackages \/ EndState
  <2>1. imageDef' = imageDef /\ step' = step + 1 /\ item' = 1 /\ ~done
    BY <1>4 DEF upgradePackages, installPackages, runApt, EndState, running
  <2>2. step <= Len(StepsOf(imageDef)) /\ Len(StepsOf(imageDef)) \in Nat
    BY <2>1, ByName, Stages DEF Control
  <2>3. QED
    BY <2>1, <2>2, Restart DEF Control
<1>5. CASE Fail
  BY <1>5, StageKept DEF Fail, Control
<1>6. CASE Retry
  <2>1. imageDef' = imageDef /\ step' \in 2..step /\ item' = 1
    BY <1>6 DEF Retry
  <2>2. /\ step' \in Nat /\ step' >= 1 /\ step' <= Len(StepsOf(imageDef)) + 1
        /\ Len(StepsOf(imageDef)) \in Nat
    BY <2>1, Stages DEF Control
  <2>3. QED
    BY <2>1, <2>2, Restart DEF Control
<1>7. CASE UNCHANGED vars
  BY <1>7, StageKept DEF vars, Control
<1>8. QED
  BY <1>1, <1>2, <1>3, <1>4, <1>5, <1>6, <1>7 DEF Next

LEMMA PPATypesStep == ASSUME Control, PPAsType, [Next]_vars PROVE PPAsType'
<1>1. imageDef \in Configs /\ imageDef' = imageDef
  BY DEF Control, Next, vars, WriteSources, AddPPA, RemovePPA, Remove, upgradePackages,
         installPackages, runApt, EndState, Fail, Retry
<1>2. ASSUME NEW i \in DOMAIN ppasHandled
      PROVE  ppasHandled[i].name \in Names(imageDef)
  BY <1>1, <1>2, ByName DEF HandledBy, Names
<1>3. MaxFailures \in Nat
  BY BoundAssumption
<1> USE <1>1, <1>2, <1>3 DEF PPAsType
<1>4. CASE WriteSources
  BY <1>4 DEF WriteSources
<1>5. CASE AddPPA
  BY <1>5 DEF AddPPA
<1>6. CASE RemovePPA
  BY <1>6 DEF RemovePPA, Remove
<1>7. CASE upgradePackages \/ installPackages
  BY <1>7 DEF upgradePackages, installPackages, runApt
<1>8. CASE EndState
  BY <1>8 DEF EndState
<1>9. CASE Fail
  BY <1>9 DEF Fail
<1>10. CASE Retry
  BY <1>10 DEF Retry
<1>11. CASE UNCHANGED vars
  BY <1>11 DEF vars
<1>12. QED
  BY <1>4, <1>5, <1>6, <1>7, <1>8, <1>9, <1>10, <1>11 DEF Next

LEMMA ContentTypes ==
    ASSUME NEW c \in Configs, NEW n, NEW i \in DOMAIN WrittenBy(c, n)
    PROVE  WrittenBy(c, n)[i].file \in Files /\ WrittenBy(c, n)[i].content \subseteq Ours
<1>1. PICK target \in BOOLEAN : WrittenBy(c, n) = customizeSourcesList(c, target)
  <2>1. Len(<<>>) = 0 /\ DOMAIN <<>> = {}
    OBVIOUS
  <2>2. WrittenBy(c, n) # <<>>
    BY <2>1
  <2>3. QED
    BY <2>2, Handling
<1>2. /\ legacySourcesList(c, target) \subseteq Ours
      /\ deb822SourcesList(c, target) \subseteq Ours
  BY LegacyEntries, Deb822Entries
<1>3. CASE c.deb822
  BY <1>1, <1>2, <1>3, Writes DEF Files
<1>4. CASE ~c.deb822
  BY <1>1, <1>2, <1>4, Writes DEF Files
<1>5. QED
  BY <1>3, <1>4

LEMMA FilesTypesStep == ASSUME Control, FilesType, [Next]_vars PROVE FilesType'
<1>1. ASSUME NEW i \in DOMAIN sourcesWritten
      PROVE  sourcesWritten[i].file \in Files /\ sourcesWritten[i].content \in SUBSET Entries
  BY <1>1, ByName, ContentTypes DEF Control, Ours
<1> USE DEF FilesType
<1>2. CASE WriteSources
  BY <1>1, <1>2 DEF WriteSources
<1>3. CASE Fail
  BY <1>1, <1>3 DEF Fail
<1>4. CASE \/ AddPPA \/ RemovePPA \/ upgradePackages \/ installPackages
           \/ EndState \/ Retry
  BY <1>4 DEF AddPPA, RemovePPA, Remove, upgradePackages, installPackages, runApt,
              EndState, Retry
<1>5. CASE UNCHANGED vars
  BY <1>5 DEF vars
<1>6. QED
  BY <1>2, <1>3, <1>4, <1>5 DEF Next

LEMMA UsedTypesStep ==
    ASSUME Control, FilesType, PPAsType, UsedType, [Next]_vars PROVE UsedType'
<1>1. imageDef' = imageDef
  BY DEF Next, vars, WriteSources, AddPPA, RemovePPA, Remove, upgradePackages,
         installPackages, runApt, EndState, Fail, Retry
<1>2. retargeted' \in BOOLEAN
  BY DEF UsedType, Next, vars, WriteSources, AddPPA, RemovePPA, Remove, upgradePackages,
         installPackages, runApt, EndState, Fail, Retry
<1>3. CASE upgradePackages \/ installPackages
  <2>1. /\ used'.entries = UNION {files[f] : f \in Files}
        /\ used'.ppas = IF imageDef.deb822 THEN ppaFiles ELSE ppaFiles \cap keys
        /\ used'.early = ~retargeted
    <3>1. runApt
      BY <1>3 DEF upgradePackages, installPackages
    <3>2. QED
      BY <3>1 DEF runApt
  <2>2. used'.entries \subseteq Entries
    BY <2>1 DEF FilesType
  <2>3. used'.ppas \subseteq Names(imageDef)
    BY <2>1 DEF PPAsType
  <2>4. used'.early \in BOOLEAN
    BY <2>1
  <2>5. QED
    BY <1>1, <1>2, <2>2, <2>3, <2>4 DEF UsedType
<1>4. CASE ~(upgradePackages \/ installPackages)
  <2>1. used' = used
    BY <1>4 DEF Next, vars, WriteSources, AddPPA, RemovePPA, Remove, EndState, Fail, Retry
  <2>2. QED
    BY <1>1, <1>2, <2>1 DEF UsedType
<1>5. QED
  BY <1>3, <1>4

LEMMA TypesInit == Init => Types
<1> SUFFICES ASSUME Init PROVE Types
  OBVIOUS
<1>1. imageDef \in Configs /\ Len(StepsOf(imageDef)) \in 3..6
  <2>1. imageDef \in Configs
    BY DEF Init
  <2>2. QED
    BY <2>1, Lengths
<1>2. Len(sourcesWritten) \in Nat /\ Len(ppasHandled) \in Nat
  BY <1>1, ByName, Handling
<1>3. Control
  BY <1>1, <1>2 DEF Init, Control
<1>4. FilesType
  <2>1. \A suites \in SUBSET Pockets : Foreign(suites) \in SUBSET Entries
    <3>1. ASSUME NEW suites \in SUBSET Pockets, NEW e \in Foreign(suites)
          PROVE  e \in Entries
      <4>1. PICK suite \in Pockets : e = Entry("elsewhere", suite, "rootfs")
        BY <3>1 DEF Foreign
      <4>2. QED
        BY <4>1 DEF Entry, Entries
    <3>2. QED
      BY <3>1
  <2>2. /\ Foreign({"release"}) \in SUBSET Entries
        /\ \A suites \in TarballSuites : Foreign(suites) \in SUBSET Entries
    BY <2>1, TarballAssumption DEF Pockets
  <2>3. original \in [Files -> SUBSET Entries]
    BY <2>2 DEF Init
  <2>4. QED
    BY <2>3 DEF Init, FilesType
<1>5. PPAsType
  BY BoundAssumption DEF Init, PPAsType
<1>6. UsedType
  BY DEF Init, UsedType
<1>7. QED
  BY <1>3, <1>4, <1>5, <1>6 DEF Types

LEMMA TypesStep == ASSUME Types, [Next]_vars PROVE Types'
  BY ControlStep, PPATypesStep, FilesTypesStep, UsedTypesStep DEF Types

LEMMA TypesAlways == Spec => []Types
<1>1. Types /\ [Next]_vars => Types'
  BY TypesStep
<1>2. QED
  BY TypesInit, <1>1, PTL DEF Spec

\* The variables keep their types.
THEOREM TypeCorrect == Spec => []TypeOK
  BY TypesAlways, TypesAreTypeOK, PTL

-----------------------------------------------------------------------------
(***************************************************************************)
(* PPAs.  What has been enabled stays until clean_extra_ppas, which keeps  *)
(* the files it is told to keep; what it has handled is gone.              *)
(***************************************************************************)
Kept(j) == imageDef.ppas[j].keepEnabled
Name(j) == imageDef.ppas[j].name
Gone(j) == (~Kept(j) => Name(j) \notin ppaFiles) /\ Name(j) \notin keys

\* Removing this PPA fails.
Blocked(j) ==
    \/ ~Kept(j) /\ Name(j) \notin ppaFiles
    \/ ~imageDef.deb822 /\ Name(j) \notin keys

Enabled ==
    /\ current = "add_extra_ppas" => \A j \in DOMAIN imageDef.ppas :
         j < item => Name(j) \in ppaFiles
    /\ current \in {"install_packages", "clean_extra_ppas", "customize_sources_list", "none"} =>
         \A j \in DOMAIN imageDef.ppas : Kept(j) => Name(j) \in ppaFiles

Cleaned ==
    /\ imageDef.deb822 => keys = {}
    /\ current = "clean_extra_ppas" => \A j \in DOMAIN imageDef.ppas : j < item => Gone(j)
    /\ current \in {"customize_sources_list", "none"} =>
         \A j \in DOMAIN imageDef.ppas : Gone(j)

\* If packages were installed without some PPA, clean_extra_ppas has still to
\* reach one that it cannot remove.
Seen ==
    /\ current = "clean_extra_ppas" =>
         \/ used.ppas = Names(imageDef)
         \/ \E j \in DOMAIN imageDef.ppas : j >= item /\ Blocked(j)
    /\ current \in {"customize_sources_list", "none"} /\ Len(imageDef.ppas) # 0 =>
         used.ppas = Names(imageDef)

PPAInv == Enabled /\ Cleaned /\ Seen

LEMMA Adds ==
    ASSUME Control, AddPPA
    PROVE  /\ current = "add_extra_ppas" /\ current' = current /\ imageDef' = imageDef
           /\ item \in DOMAIN imageDef.ppas
           /\ ppaFiles \subseteq ppaFiles'
           /\ item' = item \/ (item' = item + 1 /\ Name(item) \in ppaFiles')
           /\ imageDef.deb822 => keys' = keys
<1>1. /\ current = "add_extra_ppas" /\ item \in DOMAIN ppasHandled
      /\ imageDef' = imageDef /\ step' = step
  BY DEF AddPPA
<1>2. ppasHandled = imageDef.ppas /\ current' = current
  BY <1>1, Stages, StageKept
<1>3. CASE ~imageDef.deb822 /\ Name(item) \in keys
  BY <1>1, <1>2, <1>3 DEF AddPPA, Name
<1>4. CASE ~(~imageDef.deb822 /\ Name(item) \in keys)
  BY <1>1, <1>2, <1>4 DEF AddPPA, Name
<1>5. QED
  BY <1>3, <1>4

LEMMA Removes ==
    ASSUME Control, imageDef.deb822 => keys = {}, RemovePPA
    PROVE  /\ current = "clean_extra_ppas" /\ current' = current /\ imageDef' = imageDef
           /\ item \in DOMAIN imageDef.ppas
           /\ ppaFiles' \subseteq ppaFiles /\ keys' \subseteq keys
           /\ \A n \in ppaFiles : n \notin ppaFiles' => n = Name(item) /\ ~Kept(item)
           /\ \/ item' = item
              \/ /\ item' = item + 1 /\ ~Blocked(item)
                 /\ \A j \in DOMAIN imageDef.ppas : j = item => Gone(j)'
           /\ used' = used
<1>1. /\ current = "clean_extra_ppas" /\ item \in DOMAIN ppasHandled
      /\ imageDef' = imageDef /\ step' = step /\ used' = used
      /\ Remove(ppasHandled[item])
  BY DEF RemovePPA
<1>2. ppasHandled = imageDef.ppas /\ current' = current
  BY <1>1, Stages, StageKept
<1>3. Kept(item) \in BOOLEAN
  BY <1>1, <1>2, DefinitionTypes DEF Kept, Control
<1>4. /\ ppasHandled[item].name = Name(item)
      /\ ppasHandled[item].keepEnabled = Kept(item)
  BY <1>1, <1>2 DEF Name, Kept
<1> DEFINE file == ~ppasHandled[item].keepEnabled /\ Name(item) \notin ppaFiles
           key == ~imageDef.deb822 /\ Name(item) \notin keys
<1>5. CASE file
  BY <1>1, <1>2, <1>4, <1>5 DEF Remove
<1>6. CASE ~file /\ key
  <2>1. /\ item' = item /\ keys' = keys
        /\ ppaFiles' = IF ppasHandled[item].keepEnabled THEN ppaFiles
                       ELSE ppaFiles \ {Name(item)}
    BY <1>1, <1>4, <1>6 DEF Remove
  <2>2. QED
    BY <1>1, <1>2, <1>4, <2>1
<1>7. CASE ~file /\ ~key
  <2>1. /\ item' = item + 1
        /\ keys' = IF imageDef.deb822 THEN keys ELSE keys \ {Name(item)}
        /\ ppaFiles' = IF ppasHandled[item].keepEnabled THEN ppaFiles
                       ELSE ppaFiles \ {Name(item)}
    BY <1>1, <1>4, <1>7 DEF Remove
  <2>2. Name(item) \notin keys'
    BY <2>1
  <2>3. Name(item) \in ppaFiles' => Kept(item)
    BY <1>4, <2>1
  <2>4. ASSUME NEW j \in DOMAIN imageDef.ppas, j = item PROVE Gone(j)'
    BY <1>1, <2>2, <2>3, <2>4 DEF Gone, Name, Kept
  <2>5. ~Blocked(item)
    BY <1>4, <1>7 DEF Blocked
  <2>6. \A n \in ppaFiles : n \notin ppaFiles' => n = Name(item) /\ ~Kept(item)
    BY <1>4, <2>1
  <2>7. ppaFiles' \subseteq ppaFiles /\ keys' \subseteq keys
    BY <2>1
  <2>8. QED
    BY <1>1, <1>2, <2>1, <2>4, <2>5, <2>6, <2>7
<1>8. QED
  BY <1>5, <1>6, <1>7

\* Nothing that the invariant is about changes.
LEMMA PPAsSame ==
    ASSUME PPAInv, imageDef' = imageDef, ppaFiles' = ppaFiles, keys' = keys, used' = used,
           current' = current,
           item' = item \/ current \notin {"add_extra_ppas", "clean_extra_ppas"}
    PROVE  PPAInv'
  BY DEF PPAInv, Enabled, Cleaned, Seen, Kept, Name, Gone, Blocked

\* add_extra_ppas only adds.
LEMMA PPAsGrow ==
    ASSUME Control, PPAInv, current = "add_extra_ppas", current' = current,
           imageDef' = imageDef, ppaFiles \subseteq ppaFiles',
           imageDef.deb822 => keys' = keys,
           \/ item' = item
           \/ item' = item + 1 /\ Name(item) \in ppaFiles'
    PROVE  PPAInv'
<1>1. DOMAIN imageDef.ppas = 1..Len(imageDef.ppas) /\ item \in Nat
  BY DefinitionTypes DEF Control
<1>2. ASSUME NEW j \in DOMAIN imageDef.ppas, j < item' PROVE Name(j)' \in ppaFiles'
  <2>1. Name(j)' = Name(j)
    BY DEF Name
  <2>2. j < item \/ j = item
    BY <1>1, <1>2
  <2>3. j < item => Name(j) \in ppaFiles
    BY DEF PPAInv, Enabled
  <2>4. CASE j = item
    <3>1. item' # item
      BY <1>1, <1>2, <2>4
    <3>2. QED
      BY <2>1, <2>4, <3>1
  <2>5. QED
    BY <2>1, <2>2, <2>3, <2>4
<1>3. Enabled'
  BY <1>2 DEF Enabled
<1>4. Cleaned' /\ Seen'
  BY DEF PPAInv, Cleaned, Seen
<1>5. QED
  BY <1>3, <1>4 DEF PPAInv

\* clean_extra_ppas only removes, and not what is to be kept.
LEMMA PPAsShrink ==
    ASSUME Control, PPAInv, current = "clean_extra_ppas", current' = current,
           imageDef' = imageDef, item \in DOMAIN imageDef.ppas, used' = used,
           ppaFiles' \subseteq ppaFiles, keys' \subseteq keys,
           \A n \in ppaFiles : n \notin ppaFiles' => n = Name(item) /\ ~Kept(item),
           \/ item' = item
           \/ /\ item' = item + 1 /\ ~Blocked(item)
              /\ \A j \in DOMAIN imageDef.ppas : j = item => Gone(j)'
    PROVE  PPAInv'
<1>1. /\ DOMAIN imageDef.ppas = 1..Len(imageDef.ppas) /\ item \in Nat
      /\ \A i, j \in DOMAIN imageDef.ppas : Name(i) = Name(j) => i = j
  BY DefinitionTypes DEF Control, Name
<1>2. Enabled'
  <2>1. ASSUME NEW j \in DOMAIN imageDef.ppas, Kept(j) PROVE Name(j) \in ppaFiles'
    <3>1. Name(j) \in ppaFiles
      BY <2>1 DEF PPAInv, Enabled
    <3>2. QED
      BY <1>1, <2>1, <3>1
  <2>2. QED
    BY <2>1 DEF Enabled, Kept, Name
<1>3. Cleaned'
  <2>1. imageDef.deb822 => keys' = {}
    BY DEF PPAInv, Cleaned
  <2>2. ASSUME NEW j \in DOMAIN imageDef.ppas, j < item' PROVE Gone(j)'
    <3>1. CASE j < item
      <4>1. Gone(j)
        BY <3>1 DEF PPAInv, Cleaned
      <4>2. QED
        BY <4>1 DEF Gone, Kept, Name
    <3>2. CASE ~(j < item)
      <4>1. j = item /\ item' # item
        BY <1>1, <2>2, <3>2
      <4>2. QED
        BY <4>1
    <3>3. QED
      BY <3>1, <3>2
  <2>3. QED
    BY <2>1, <2>2 DEF Cleaned
<1>4. Seen'
  <2>1. CASE used.ppas = Names(imageDef)
    BY <2>1 DEF Seen
  <2>2. CASE used.ppas # Names(imageDef)
    <3>1. PICK j \in DOMAIN imageDef.ppas : j >= item /\ Blocked(j)
      BY <2>2 DEF PPAInv, Seen
    <3>2. Blocked(j)'
      BY <3>1 DEF Blocked, Kept, Name
    <3>3. j >= item'
      BY <1>1, <3>1
    <3>4. QED
      BY <3>2, <3>3 DEF Seen
  <2>3. QED
    BY <2>1, <2>2
<1>5. QED
  BY <1>2, <1>3, <1>4 DEF PPAInv

LEMMA PPAsAtFailure == ASSUME Control, PPAInv, Fail PROVE PPAInv'
<1>1. /\ imageDef' = imageDef /\ step' = step /\ item' = item /\ used' = used
      /\ current' = current
  BY StageKept DEF Fail
<1>2. CASE UNCHANGED <<ppaFiles, keys>>
  BY <1>1, <1>2, PPAsSame
<1>3. CASE /\ current = "add_extra_ppas" /\ item \in DOMAIN ppasHandled
           /\ keys' = IF imageDef.deb822 THEN keys ELSE keys \cup {ppasHandled[item].name}
           /\ ppaFiles' \in {ppaFiles, ppaFiles \cup {ppasHandled[item].name}}
  BY <1>1, <1>3, PPAsGrow
<1>4. CASE /\ current = "clean_extra_ppas" /\ item \in DOMAIN ppasHandled
           /\ ~imageDef.deb822 /\ ~ppasHandled[item].keepEnabled
           /\ ppasHandled[item].name \in ppaFiles
           /\ ppaFiles' = ppaFiles \ {ppasHandled[item].name}
           /\ keys' = keys
  <2>1. ppasHandled = imageDef.ppas
    BY <1>4, Stages
  <2>2. /\ item \in DOMAIN imageDef.ppas /\ ppaFiles' \subseteq ppaFiles
        /\ \A n \in ppaFiles : n \notin ppaFiles' => n = Name(item) /\ ~Kept(item)
    BY <1>4, <2>1 DEF Name, Kept
  <2>3. QED
    BY <1>1, <1>4, <2>2, PPAsShrink
<1>5. QED
  BY <1>2, <1>3, <1>4 DEF Fail

LEMMA PPAsAtInstallation ==
    ASSUME Types, PPAInv, installPackages PROVE PPAInv'
<1>1. /\ current = "install_packages" /\ imageDef' = imageDef /\ step' = step + 1
      /\ item' = 1 /\ ppaFiles' = ppaFiles /\ keys' = keys /\ ~done
      /\ used'.ppas = IF imageDef.deb822 THEN ppaFiles ELSE ppaFiles \cap keys
  BY DEF installPackages, runApt, running
<1>2. /\ Len(imageDef.ppas) # 0 => current' = "clean_extra_ppas"
      /\ Len(imageDef.ppas) = 0 => current' = "customize_sources_list"
  BY <1>1, Advance DEF Types
<1>3. DOMAIN imageDef.ppas = 1..Len(imageDef.ppas) /\ Len(imageDef.ppas) \in Nat
  BY DefinitionTypes DEF Types, Control
<1>4. Enabled'
  BY <1>1, <1>2 DEF PPAInv, Enabled, Kept, Name
<1>5. Cleaned'
  BY <1>1, <1>2, <1>3 DEF PPAInv, Cleaned
<1>6. Seen'
  <2>1. CASE Len(imageDef.ppas) = 0
    BY <1>1, <1>2, <2>1 DEF Seen
  <2>2. CASE Len(imageDef.ppas) # 0 /\ used'.ppas = Names(imageDef)
    BY <1>1, <1>2, <2>2 DEF Seen
  <2>3. CASE Len(imageDef.ppas) # 0 /\ used'.ppas # Names(imageDef)
    <3>1. PICK j \in DOMAIN imageDef.ppas : Name(j) \notin used'.ppas
      BY <1>1, <2>3 DEF Types, PPAsType, Names, Name
    <3>2. Kept(j) => Name(j) \in ppaFiles
      BY <1>1 DEF PPAInv, Enabled
    <3>3. Blocked(j)
      <4>1. CASE imageDef.deb822
        BY <1>1, <3>1, <3>2, <4>1 DEF Blocked
      <4>2. CASE ~imageDef.deb822
        BY <1>1, <3>1, <3>2, <4>2 DEF Blocked
      <4>3. QED
        BY <4>1, <4>2
    <3>4. Blocked(j)' /\ j >= item'
      BY <1>1, <1>3, <3>3 DEF Blocked, Kept, Name
    <3>5. QED
      BY <1>1, <1>2, <2>3, <3>4 DEF Seen
  <2>4. QED
    BY <2>1, <2>2, <2>3
<1>7. QED
  BY <1>4, <1>5, <1>6 DEF PPAInv

\* Before add_extra_ppas, or before install_packages where there are no PPAs.
LEMMA PPAsBefore ==
    ASSUME Control, PPAInv, imageDef' = imageDef, ppaFiles' = ppaFiles, keys' = keys,
           item' = 1,
           \/ current' \in {"upgrade_packages", "add_extra_ppas"}
           \/ current' = "install_packages" /\ Len(imageDef.ppas) = 0
    PROVE  PPAInv'
<1>1. DOMAIN imageDef.ppas = 1..Len(imageDef.ppas) /\ Len(imageDef.ppas) \in Nat
  BY DefinitionTypes DEF Control
<1>2. Enabled'
  BY <1>1 DEF Enabled
<1>3. Cleaned' /\ Seen'
  BY DEF PPAInv, Cleaned, Seen
<1>4. QED
  BY <1>2, <1>3 DEF PPAInv

LEMMA PPAsAtUpgrade == ASSUME Control, PPAInv, upgradePackages PROVE PPAInv'
<1>1. /\ current = "upgrade_packages" /\ imageDef' = imageDef /\ step' = step + 1
      /\ item' = 1 /\ ppaFiles' = ppaFiles /\ keys' = keys /\ ~done
  BY DEF upgradePackages, runApt, running
<1>2. \/ current' = "add_extra_ppas"
      \/ current' = "install_packages" /\ Len(imageDef.ppas) = 0
  BY <1>1, Advance
<1>3. QED
  BY <1>1, <1>2, PPAsBefore

LEMMA PPAsAtEnd == ASSUME Control, PPAInv, EndState PROVE PPAInv'
<1>1. /\ current \notin {"upgrade_packages", "install_packages"}
      /\ imageDef' = imageDef /\ step' = step + 1
      /\ item' = 1 /\ ppaFiles' = ppaFiles /\ keys' = keys /\ used' = used /\ ~done
      /\ item > Len(sourcesWritten) + Len(ppasHandled)
  BY DEF EndState, running, Items
<1>2. /\ DOMAIN imageDef.ppas = 1..Len(imageDef.ppas) /\ Len(imageDef.ppas) \in Nat
      /\ item \in Nat
  BY DefinitionTypes DEF Control
<1>3. current \in {"create_rootfs", "add_extra_ppas", "clean_extra_ppas",
                  "customize_sources_list"}
  BY <1>1, Stages DEF StateNames
<1>4. current \in {"add_extra_ppas", "clean_extra_ppas"} =>
        \A j \in DOMAIN imageDef.ppas : j < item
  BY <1>1, <1>2, Stages
<1>5. CASE current = "create_rootfs"
  <2>1. \/ current' \in {"upgrade_packages", "add_extra_ppas"}
        \/ current' = "install_packages" /\ Len(imageDef.ppas) = 0
    BY <1>1, <1>5, Advance
  <2>2. QED
    BY <1>1, <2>1, PPAsBefore
<1>6. CASE current = "add_extra_ppas"
  <2>1. current' = "install_packages"
    BY <1>1, <1>6, Advance
  <2>2. Enabled'
    BY <1>1, <1>4, <1>6, <2>1 DEF PPAInv, Enabled, Name, Kept
  <2>3. QED
    BY <1>1, <2>1, <2>2 DEF PPAInv, Cleaned, Seen
<1>7. CASE current = "clean_extra_ppas"
  <2>1. current' = "customize_sources_list"
    BY <1>1, <1>7, Advance
  <2>2. Enabled'
    BY <1>1, <1>7, <2>1 DEF PPAInv, Enabled, Name, Kept
  <2>3. Cleaned'
    BY <1>1, <1>4, <1>7, <2>1 DEF PPAInv, Cleaned, Gone, Name, Kept
  <2>4. Seen'
    <3>1. \A j \in DOMAIN imageDef.ppas : ~(j >= item)
      BY <1>2, <1>4, <1>7
    <3>2. used.ppas = Names(imageDef)
      BY <1>7, <3>1 DEF PPAInv, Seen
    <3>3. QED
      BY <1>1, <2>1, <3>2 DEF Seen
  <2>5. QED
    BY <2>2, <2>3, <2>4 DEF PPAInv
<1>8. CASE current = "customize_sources_list"
  <2>1. current' = "none"
    BY <1>1, <1>8, Advance
  <2>2. QED
    BY <1>1, <1>8, <2>1 DEF PPAInv, Enabled, Cleaned, Seen, Gone, Name, Kept
<1>9. QED
  BY <1>3, <1>5, <1>6, <1>7, <1>8

LEMMA PPAsAtRetry == ASSUME Control, PPAInv, Retry PROVE PPAInv'
<1>1. /\ imageDef' = imageDef /\ step' \in 2..step /\ item' = 1 /\ ppaFiles' = ppaFiles
      /\ keys' = keys /\ used' = used
  BY DEF Retry
<1>2. /\ DOMAIN imageDef.ppas = 1..Len(imageDef.ppas) /\ Len(imageDef.ppas) \in Nat
      /\ item \in Nat /\ item >= 1
  BY DefinitionTypes DEF Control
<1>3. /\ current \in StateNames \cup {"none"}
      /\ current' # "create_rootfs" /\ current # "create_rootfs"
      /\ current' = "install_packages" =>
           current \notin {"upgrade_packages", "add_extra_ppas"}
      /\ current' = "clean_extra_ppas" =>
           current \in {"clean_extra_ppas", "customize_sources_list", "none"}
      /\ current' = "customize_sources_list" =>
           current \in {"customize_sources_list", "none"}
      /\ current' = "none" => current = "none"
      /\ current \in {"clean_extra_ppas"} => Len(imageDef.ppas) # 0
  BY <1>1, Stages, GoBack
<1>4. \A j \in DOMAIN imageDef.ppas : ~(j < item') /\ j >= item'
  BY <1>1, <1>2
<1>5. Enabled'
  BY <1>1, <1>3, <1>4 DEF PPAInv, Enabled, Name, Kept, StateNames
<1>6. Cleaned'
  BY <1>1, <1>3, <1>4 DEF PPAInv, Cleaned, Gone, Name, Kept
<1>7. Seen'
  <2>1. CASE current' = "clean_extra_ppas"
    <3>1. CASE current = "clean_extra_ppas"
      BY <1>1, <1>3, <1>4, <2>1, <3>1 DEF PPAInv, Seen, Blocked, Name, Kept
    <3>2. CASE current \in {"customize_sources_list", "none"} /\ Len(imageDef.ppas) # 0
      BY <1>1, <2>1, <3>2 DEF PPAInv, Seen
    <3>3. Control'
      BY ControlStep DEF Next
    <3>4. Len(imageDef.ppas) # 0
      <4>1. /\ imageDef' \in Configs /\ step' \in Nat /\ step' >= 1
            /\ step' <= Len(StepsOf(imageDef')) + 1 /\ current' = NameOf(imageDef', step')
        BY <3>3, ByNamePrimed DEF Control
      <4>2. Len(imageDef'.ppas) # 0
        BY <2>1, <4>1, Places
      <4>3. QED
        BY <1>1, <4>2
    <3>5. QED
      BY <1>3, <2>1, <3>1, <3>2, <3>4
  <2>2. CASE current' \in {"customize_sources_list", "none"}
    BY <1>1, <1>3, <2>2 DEF PPAInv, Seen
  <2>3. CASE current' \notin {"clean_extra_ppas", "customize_sources_list", "none"}
    BY <2>3 DEF Seen
  <2>4. QED
    BY <2>1, <2>2, <2>3
<1>8. QED
  BY <1>5, <1>6, <1>7 DEF PPAInv

LEMMA PPAStep == ASSUME Types, PPAInv, [Next]_vars PROVE PPAInv'
<1>1. CASE WriteSources
  <2>1. /\ imageDef' = imageDef /\ step' = step /\ ppaFiles' = ppaFiles /\ keys' = keys
        /\ used' = used /\ item \in DOMAIN sourcesWritten
    BY <1>1 DEF WriteSources
  <2>2. current' = current /\ current \notin {"add_extra_ppas", "clean_extra_ppas"}
    BY <2>1, StageKept, Stages DEF Types
  <2>3. QED
    BY <2>1, <2>2, PPAsSame
<1>2. CASE AddPPA
  <2>1. used' = used
    BY <1>2 DEF AddPPA
  <2>2. QED
    BY <1>2, <2>1, Adds, PPAsGrow DEF Types
<1>3. CASE RemovePPA
  <2>1. imageDef.deb822 => keys = {}
    BY DEF PPAInv, Cleaned
  <2>2. QED
    BY <1>3, <2>1, Removes, PPAsShrink DEF Types
<1>4. CASE upgradePackages
  BY <1>4, PPAsAtUpgrade DEF Types
<1>5. CASE installPackages
  BY <1>5, PPAsAtInstallation
<1>6. CASE EndState
  BY <1>6, PPAsAtEnd DEF Types
<1>7. CASE Fail
  BY <1>7, PPAsAtFailure DEF Types
<1>8. CASE Retry
  BY <1>8, PPAsAtRetry DEF Types
<1>9. CASE UNCHANGED vars
  BY <1>9, StageKept, PPAsSame DEF vars
<1>10. QED
  BY <1>1, <1>2, <1>3, <1>4, <1>5, <1>6, <1>7, <1>8, <1>9 DEF Next

LEMMA PPAInit == Init => PPAInv
<1> SUFFICES ASSUME Init PROVE PPAInv
  OBVIOUS
<1>1. Control /\ step = 1
  BY TypesInit DEF Types, Init
<1>2. current = "create_rootfs"
  BY <1>1, Stages
<1>3. QED
  BY <1>2 DEF Init, PPAInv, Enabled, Cleaned, Seen

LEMMA PPAsAlways == Spec => [](Types /\ PPAInv)
<1>1. Types /\ PPAInv /\ [Next]_vars => (Types /\ PPAInv)'
  BY TypesStep, PPAStep
<1>2. QED
  BY TypesInit, PPAInit, <1>1, PTL DEF Spec

\* The files of PPAs in a finished image are those to be kept, and no PPA that
\* is not kept leaves its key, after any failures and retries.
THEOREM PPAsCorrect == Spec => []PPAsAsAsked
<1>1. Types /\ PPAInv => PPAsAsAsked
  <2> SUFFICES ASSUME Types, PPAInv, done PROVE PPAsAsAsked
    BY DEF PPAsAsAsked
  <2> DEFINE kept == {imageDef.ppas[i].name :
                        i \in {j \in DOMAIN imageDef.ppas : imageDef.ppas[j].keepEnabled}}
  <2>1. current = "none"
    BY Stages DEF Types
  <2>2. /\ \A j \in DOMAIN imageDef.ppas : Kept(j) => Name(j) \in ppaFiles
        /\ \A j \in DOMAIN imageDef.ppas : Gone(j)
    BY <2>1 DEF PPAInv, Enabled, Cleaned
  <2>3. ppaFiles \subseteq Names(imageDef) /\ keys \subseteq Names(imageDef)
    BY DEF Types, PPAsType
  <2>4. ppaFiles = kept
    BY <2>2, <2>3 DEF Names, Name, Kept, Gone
  <2>5. keys \subseteq kept
    BY <2>2, <2>3 DEF Names, Name, Gone
  <2>6. QED
    BY <2>4, <2>5 DEF PPAsAsAsked
<1>2. QED
  BY PPAsAlways, <1>1, PTL

\* Whatever failed and was retried, packages of a build that gets past
\* clean_extra_ppas were installed with every PPA enabled and signed.
THEOREM InstallationCorrect == Spec => []InstallSeesEveryPPA
<1>1. Types /\ PPAInv => InstallSeesEveryPPA
  <2> SUFFICES ASSUME Types, PPAInv, current = "customize_sources_list",
                      imageDef.ppas # <<>>
               PROVE  used.ppas = PPANames
    BY DEF InstallSeesEveryPPA
  <2>1. Len(imageDef.ppas) # 0
    BY DefinitionTypes DEF Types, Control
  <2>2. QED
    BY <2>1, ByName DEF PPAInv, Seen
<1>2. QED
  BY PPAsAlways, <1>1, PTL

-----------------------------------------------------------------------------
(***************************************************************************)
(* Sources.  Until the sources of the target are written those of the      *)
(* build stay, unless a failure has emptied them.                          *)
(***************************************************************************)
First == IF imageDef.deb822 THEN "ubuntu.sources" ELSE "sources.list"

FirstContent(target) ==
    IF imageDef.deb822 THEN deb822SourcesList(imageDef, target)
    ELSE legacySourcesList(imageDef, target)

\* What has been written before item i.
WrittenTo(i, target) ==
    /\ i > 1 => files[First] = FirstContent(target)
    /\ i > 2 => files["sources.list"] = {}

\* In deb822 format the other file is left empty.
AllWritten(target) ==
    /\ files[First] = FirstContent(target)
    /\ imageDef.deb822 => files["sources.list"] = {}

\* In legacy format ubuntu.sources is left as it was, which is without sources
\* where debootstrap made the rootfs.
OtherKept ==
    /\ ~imageDef.deb822 => files["ubuntu.sources"] = original["ubuntu.sources"]
    /\ imageDef.rootfs = "seed" => original["ubuntu.sources"] = {}

Empty == \A f \in Files : files[f] = {}

ForTarget ==
    /\ current = "customize_sources_list" => WrittenTo(item, TRUE)
    /\ current = "none" => AllWritten(TRUE)

ForBuild ==
    /\ current = "create_rootfs" /\ imageDef.rootfs = "seed" => WrittenTo(item, FALSE)
    /\ current = "customize_sources_list" /\ item > 1 => retargeted
    /\ current = "none" => retargeted
    /\ current # "create_rootfs" /\ imageDef.rootfs = "seed" /\ ~retargeted =>
         AllWritten(FALSE) \/ Empty

SourcesInv == OtherKept /\ ForTarget /\ ForBuild

\* The file written next, and its place in the list.
LEMMA Writing ==
    ASSUME Control, item \in DOMAIN sourcesWritten
    PROVE  /\ current \in {"create_rootfs", "customize_sources_list"}
           /\ current = "create_rootfs" => imageDef.rootfs = "seed"
           /\ \A target \in BOOLEAN : (target <=> current = "customize_sources_list") =>
                /\ item = 1 => /\ sourcesWritten[item].file = First
                               /\ sourcesWritten[item].content = FirstContent(target)
                /\ item # 1 => /\ item = 2 /\ imageDef.deb822
                               /\ sourcesWritten[item].file = "sources.list"
                               /\ sourcesWritten[item].content = {}
<1>1. /\ imageDef \in Configs /\ item \in Nat /\ item >= 1
      /\ sourcesWritten = WrittenBy(imageDef, current)
      /\ item \in 1..Len(sourcesWritten) /\ Len(sourcesWritten) # 0
  BY Stages, ByName DEF Control
<1>2. current \in {"create_rootfs", "customize_sources_list"}
  BY <1>1, Handling
<1>3. current = "create_rootfs" => imageDef.rootfs = "seed"
  <2>1. Len(<<>>) = 0
    OBVIOUS
  <2>2. current = "create_rootfs" /\ imageDef.rootfs # "seed" =>
          WrittenBy(imageDef, current) = <<>>
    BY DEF WrittenBy
  <2>3. QED
    BY <1>1, <2>1, <2>2
<1>4. ASSUME NEW target \in BOOLEAN, target <=> current = "customize_sources_list"
      PROVE  sourcesWritten = customizeSourcesList(imageDef, target)
  <2>1. CASE current = "customize_sources_list"
    <3>1. target = TRUE
      BY <1>4, <2>1
    <3>2. sourcesWritten = customizeSourcesList(imageDef, TRUE)
      BY <1>1, <2>1 DEF WrittenBy
    <3>3. QED
      BY <3>1, <3>2
  <2>2. CASE current = "create_rootfs"
    <3>1. target = FALSE
      BY <1>4, <2>2
    <3>2. sourcesWritten = customizeSourcesList(imageDef, FALSE)
      BY <1>1, <1>3, <2>2 DEF WrittenBy
    <3>3. QED
      BY <3>1, <3>2
  <2>3. QED
    BY <1>2, <2>1, <2>2
<1>5. ASSUME NEW target \in BOOLEAN, target <=> current = "customize_sources_list"
      PROVE  /\ item = 1 => /\ sourcesWritten[item].file = First
                            /\ sourcesWritten[item].content = FirstContent(target)
             /\ item # 1 => /\ item = 2 /\ imageDef.deb822
                            /\ sourcesWritten[item].file = "sources.list"
                            /\ sourcesWritten[item].content = {}
  <2>1. sourcesWritten = customizeSourcesList(imageDef, target)
    BY <1>4, <1>5
  <2>2. CASE imageDef.deb822
    <3>1. /\ Len(sourcesWritten) = 2
          /\ sourcesWritten[1].file = "ubuntu.sources"
          /\ sourcesWritten[1].content = deb822SourcesList(imageDef, target)
          /\ sourcesWritten[2].file = "sources.list" /\ sourcesWritten[2].content = {}
      BY <1>1, <2>1, <2>2, Writes
    <3>2. item \in {1, 2}
      BY <1>1, <3>1
    <3>3. QED
      BY <2>2, <3>1, <3>2 DEF First, FirstContent
  <2>3. CASE ~imageDef.deb822
    <3>1. /\ Len(sourcesWritten) = 1
          /\ sourcesWritten[1].file = "sources.list"
          /\ sourcesWritten[1].content = legacySourcesList(imageDef, target)
      BY <1>1, <2>1, <2>3, Writes
    <3>2. item = 1
      BY <1>1, <3>1
    <3>3. QED
      BY <2>3, <3>1, <3>2 DEF First, FirstContent
  <2>4. QED
    BY <2>2, <2>3
<1>6. QED
  BY <1>2, <1>3, <1>5

\* A state function that writes sources has written all of them at its end.
LEMMA WrittenAtEnd ==
    ASSUME Control, NEW target \in BOOLEAN,
           \/ target /\ current = "customize_sources_list"
           \/ ~target /\ current = "create_rootfs" /\ imageDef.rootfs = "seed",
           item > Len(sourcesWritten) + Len(ppasHandled), WrittenTo(item, target)
    PROVE  AllWritten(target) /\ item > 1
<1>1. /\ imageDef \in Configs /\ item \in Nat /\ Len(ppasHandled) = 0
      /\ sourcesWritten = WrittenBy(imageDef, current)
  BY Stages, ByName DEF Control
<1>2. sourcesWritten = customizeSourcesList(imageDef, target)
  <2>1. CASE target /\ current = "customize_sources_list"
    <3>1. target = TRUE /\ sourcesWritten = customizeSourcesList(imageDef, TRUE)
      BY <1>1, <2>1 DEF WrittenBy
    <3>2. QED
      BY <3>1
  <2>2. CASE ~target /\ current = "create_rootfs" /\ imageDef.rootfs = "seed"
    <3>1. target = FALSE /\ sourcesWritten = customizeSourcesList(imageDef, FALSE)
      BY <1>1, <2>2 DEF WrittenBy
    <3>2. QED
      BY <3>1
  <2>3. QED
    BY <2>1, <2>2
<1>3. CASE imageDef.deb822
  <2>1. Len(sourcesWritten) = 2
    BY <1>1, <1>2, <1>3, Writes
  <2>2. item > 2
    BY <1>1, <2>1
  <2>3. QED
    BY <1>1, <2>2 DEF WrittenTo, AllWritten
<1>4. CASE ~imageDef.deb822
  <2>1. Len(sourcesWritten) = 1
    BY <1>1, <1>2, <1>4, Writes
  <2>2. item > 1
    BY <1>1, <2>1
  <2>3. QED
    BY <1>1, <1>4, <2>2 DEF WrittenTo, AllWritten
<1>5. QED
  BY <1>3, <1>4

LEMMA SourcesSame ==
    ASSUME SourcesInv, imageDef' = imageDef, original' = original, files' = files,
           current' = current,
           retargeted' = retargeted,
           item' = item \/ current \notin {"create_rootfs", "customize_sources_list"}
    PROVE  SourcesInv'
  BY DEF SourcesInv, OtherKept, ForTarget, ForBuild, WrittenTo, AllWritten, Empty, First,
         FirstContent

\* Writing or emptying the file of the current item.
LEMMA FileReplaced ==
    ASSUME Control, FilesType, SourcesInv, item \in DOMAIN sourcesWritten,
           imageDef' = imageDef, original' = original, NEW content,
           files' = [files EXCEPT ![sourcesWritten[item].file] = content],
           content = sourcesWritten[item].content \/ content = {},
           NEW target \in BOOLEAN, target <=> current = "customize_sources_list"
    PROVE  /\ OtherKept'
           /\ \A i \in {item, item + 1} :
                i = item \/ content = sourcesWritten[item].content => WrittenTo(i, target)'
<1>1. /\ current \in {"create_rootfs", "customize_sources_list"}
      /\ current = "create_rootfs" => imageDef.rootfs = "seed"
      /\ item = 1 => /\ sourcesWritten[item].file = First
                     /\ sourcesWritten[item].content = FirstContent(target)
      /\ item # 1 => /\ item = 2 /\ imageDef.deb822
                     /\ sourcesWritten[item].file = "sources.list"
                     /\ sourcesWritten[item].content = {}
  BY Writing
<1>2. WrittenTo(item, target)
  <2>1. CASE target
    <3>1. current = "customize_sources_list" /\ target = TRUE
      BY <2>1
    <3>2. QED
      BY <3>1 DEF SourcesInv, ForTarget
  <2>2. CASE ~target
    <3>1. current = "create_rootfs" /\ target = FALSE
      BY <1>1, <2>2
    <3>2. QED
      BY <1>1, <3>1 DEF SourcesInv, ForBuild
  <2>3. QED
    BY <2>1, <2>2
<1>3. First' = First /\ FirstContent(target)' = FirstContent(target)
  BY DEF First, FirstContent
<1>4. /\ First \in Files /\ "sources.list" \in Files /\ "ubuntu.sources" \in Files
      /\ DOMAIN files = Files
  BY DEF First, Files, FilesType
<1>5. CASE item = 1
  <2>1. files' = [files EXCEPT ![First] = content]
    BY <1>1, <1>5
  <2>2. files'[First] = content /\ \A f \in Files : f # First => files'[f] = files[f]
    BY <1>4, <2>1
  <2>3. OtherKept'
    <3>1. CASE imageDef.deb822
      BY <3>1 DEF OtherKept, SourcesInv
    <3>2. CASE ~imageDef.deb822
      <4>1. First = "sources.list"
        BY <3>2 DEF First
      <4>2. QED
        BY <1>4, <2>2, <4>1 DEF OtherKept, SourcesInv
    <3>3. QED
      BY <3>1, <3>2
  <2>4. WrittenTo(1, target)'
    BY DEF WrittenTo
  <2>5. content = sourcesWritten[item].content => WrittenTo(2, target)'
    BY <1>1, <1>3, <1>5, <2>2 DEF WrittenTo
  <2>6. QED
    BY <1>5, <2>3, <2>4, <2>5
<1>6. CASE item # 1
  <2>1. item = 2 /\ imageDef.deb822 /\ First = "ubuntu.sources" /\ content = {}
    BY <1>1, <1>6 DEF First
  <2>2. files'["sources.list"] = {} /\ files'[First] = files[First]
    BY <1>1, <1>4, <1>6, <2>1
  <2>3. OtherKept'
    BY <2>1 DEF OtherKept, SourcesInv
  <2>4. files[First] = FirstContent(target)
    BY <1>2, <2>1 DEF WrittenTo
  <2>5. WrittenTo(2, target)' /\ WrittenTo(3, target)'
    BY <1>3, <2>2, <2>4 DEF WrittenTo
  <2>6. QED
    BY <2>1, <2>3, <2>5
<1>7. QED
  BY <1>5, <1>6

LEMMA SourcesAtWrite ==
    ASSUME Control, FilesType, SourcesInv, WriteSources PROVE SourcesInv'
<1>1. /\ imageDef' = imageDef /\ original' = original
      /\ step' = step /\ item' = item + 1 /\ item \in DOMAIN sourcesWritten
      /\ files' = [files EXCEPT ![sourcesWritten[item].file] = sourcesWritten[item].content]
      /\ current = "customize_sources_list" => retargeted'
  BY DEF WriteSources
<1>2. current' = current /\ current \in {"create_rootfs", "customize_sources_list"}
  BY <1>1, StageKept, Writing
<1>3. CASE current = "customize_sources_list"
  <2>1. OtherKept' /\ \A i \in {item, item + 1} : WrittenTo(i, TRUE)'
    BY <1>1, <1>3, FileReplaced
  <2>2. WrittenTo(item, TRUE)'
    BY <1>1, <2>1 DEF WrittenTo
  <2>3. QED
    BY <1>1, <1>2, <1>3, <2>1, <2>2 DEF SourcesInv, ForTarget, ForBuild
<1>4. CASE current = "create_rootfs"
  <2>1. OtherKept' /\ \A i \in {item, item + 1} : WrittenTo(i, FALSE)'
    BY <1>1, <1>4, FileReplaced
  <2>2. WrittenTo(item, FALSE)'
    BY <1>1, <2>1 DEF WrittenTo
  <2>3. QED
    BY <1>1, <1>2, <1>4, <2>1, <2>2 DEF SourcesInv, ForTarget, ForBuild
<1>5. QED
  BY <1>2, <1>3, <1>4

LEMMA SourcesAtFailure ==
    ASSUME Control, FilesType, SourcesInv, Fail PROVE SourcesInv'
<1>1. /\ imageDef' = imageDef /\ original' = original /\ step' = step /\ item' = item
      /\ retargeted' = retargeted /\ current' = current
  BY StageKept DEF Fail
<1>2. CASE files' = files
  BY <1>1, <1>2, SourcesSame
<1>3. CASE /\ item \in DOMAIN sourcesWritten
           /\ files' = [files EXCEPT ![sourcesWritten[item].file] = {}]
  <2>1. /\ current \in {"create_rootfs", "customize_sources_list"}
        /\ item \in Nat /\ item >= 1
    BY <1>3, Writing DEF Control
  <2>2. CASE current = "customize_sources_list"
    <3>1. OtherKept' /\ \A i \in {item, item + 1} : i = item => WrittenTo(i, TRUE)'
      BY <1>1, <1>3, <2>2, FileReplaced
    <3>2. WrittenTo(item, TRUE)'
      BY <1>1, <3>1 DEF WrittenTo
    <3>3. ASSUME imageDef.rootfs = "seed", ~retargeted PROVE Empty'
      <4>0. item = 1
        <5>1. ~(item > 1)
          BY <2>2, <3>3, Zenon DEF SourcesInv, ForBuild
        <5>2. QED
          BY <2>1, <5>1
      <4>1. item = 1 /\ (AllWritten(FALSE) \/ Empty) /\ OtherKept
        BY <2>2, <3>3, <4>0 DEF SourcesInv, ForBuild
      <4>2. sourcesWritten[item].file = First
        BY <1>3, <2>2, <4>1, Writing
      <4>3. /\ First \in Files /\ DOMAIN files = Files
            /\ Files = {"sources.list", "ubuntu.sources"}
        BY DEF First, Files, FilesType
      <4>4. files'[First] = {} /\ \A f \in Files : f # First => files'[f] = files[f]
        BY <1>3, <4>2, <4>3
      <4>5. ASSUME NEW f \in Files, f # First PROVE files[f] = {}
        <5>1. CASE imageDef.deb822
          <6>1. f = "sources.list"
            BY <4>3, <4>5, <5>1 DEF First
          <6>2. QED
            BY <4>1, <4>5, <5>1, <6>1 DEF AllWritten, Empty
        <5>2. CASE ~imageDef.deb822
          <6>1. f = "ubuntu.sources"
            BY <4>3, <4>5, <5>2 DEF First
          <6>2. QED
            BY <3>3, <4>1, <5>2, <6>1 DEF OtherKept
        <5>3. QED
          BY <5>1, <5>2
      <4>6. QED
        BY <4>4, <4>5 DEF Empty
    <3>4. QED
      BY <1>1, <2>2, <3>1, <3>2, <3>3 DEF SourcesInv, ForTarget, ForBuild
  <2>3. CASE current = "create_rootfs"
    <3>1. OtherKept' /\ \A i \in {item, item + 1} : i = item => WrittenTo(i, FALSE)'
      BY <1>1, <1>3, <2>3, FileReplaced
    <3>2. WrittenTo(item, FALSE)'
      BY <1>1, <3>1 DEF WrittenTo
    <3>3. QED
      BY <1>1, <2>3, <3>1, <3>2 DEF SourcesInv, ForTarget, ForBuild
  <2>4. QED
    BY <2>1, <2>2, <2>3
<1>4. QED
  BY <1>2, <1>3 DEF Fail

\* At the start of a state function.
LEMMA NothingWritten ==
    ASSUME item' = 1, NEW target \in BOOLEAN PROVE WrittenTo(item, target)'
<1>1. ~(item' > 1) /\ ~(item' > 2)
  OBVIOUS
<1>2. QED
  BY <1>1 DEF WrittenTo

LEMMA AllWrittenKept ==
    ASSUME imageDef' = imageDef, original' = original, files' = files
    PROVE  /\ (AllWritten(TRUE) => AllWritten(TRUE)')
           /\ (AllWritten(FALSE) => AllWritten(FALSE)')
           /\ (Empty => Empty') /\ (OtherKept => OtherKept')
<1>1. ASSUME NEW target \in BOOLEAN, AllWritten(target) PROVE AllWritten(target)'
  BY <1>1 DEF AllWritten, First, FirstContent
<1>2. AllWritten(TRUE) => AllWritten(TRUE)'
  BY <1>1
<1>3. AllWritten(FALSE) => AllWritten(FALSE)'
  BY <1>1
<1>4. (Empty => Empty') /\ (OtherKept => OtherKept')
  BY DEF Empty, OtherKept
<1>5. QED
  BY <1>2, <1>3, <1>4

\* Anywhere past the writing of the sources of the build.
LEMMA SourcesLater ==
    ASSUME imageDef' = imageDef, original' = original, files' = files,
           retargeted' = retargeted, item' = 1, OtherKept, current' # "create_rootfs",
           current' = "none" => AllWritten(TRUE) /\ retargeted,
           imageDef.rootfs = "seed" /\ ~retargeted => AllWritten(FALSE) \/ Empty
    PROVE  SourcesInv'
<1>1. WrittenTo(item, TRUE)'
  BY NothingWritten
<1>2. ~(item' > 1)
  OBVIOUS
<1>3. OtherKept' /\ (Empty => Empty') /\ (AllWritten(TRUE) => AllWritten(TRUE)')
      /\ (AllWritten(FALSE) => AllWritten(FALSE)')
  BY AllWrittenKept
<1>4. ForTarget'
  BY <1>1, <1>3, Zenon DEF ForTarget
<1>5. ForBuild'
  BY <1>2, <1>3, Zenon DEF ForBuild
<1>6. QED
  BY <1>3, <1>4, <1>5 DEF SourcesInv

LEMMA SourcesAtInstallation ==
    ASSUME Control, SourcesInv, upgradePackages \/ installPackages PROVE SourcesInv'
<1>1. /\ current \in {"upgrade_packages", "install_packages"}
      /\ imageDef' = imageDef /\ original' = original /\ step' = step + 1
      /\ item' = 1 /\ files' = files /\ retargeted' = retargeted /\ ~done
  BY DEF upgradePackages, installPackages, runApt, running
<1>2. current' \in {"add_extra_ppas", "install_packages", "clean_extra_ppas",
                    "customize_sources_list"}
  BY <1>1, Advance
<1>3. imageDef.rootfs = "seed" /\ ~retargeted => AllWritten(FALSE) \/ Empty
  BY <1>1 DEF SourcesInv, ForBuild
<1>4. QED
  BY <1>1, <1>2, <1>3, SourcesLater DEF SourcesInv

LEMMA SourcesAtEnd == ASSUME Control, SourcesInv, EndState PROVE SourcesInv'
<1>1. /\ current \notin {"upgrade_packages", "install_packages"}
      /\ imageDef' = imageDef /\ original' = original /\ step' = step + 1
      /\ item' = 1 /\ files' = files /\ retargeted' = retargeted /\ ~done
      /\ item > Len(sourcesWritten) + Len(ppasHandled)
  BY DEF EndState, running, Items
<1>2. current \in {"create_rootfs", "add_extra_ppas", "clean_extra_ppas",
                  "customize_sources_list"}
  BY <1>1, Stages DEF StateNames
<1>3. CASE current = "customize_sources_list"
  <2>1. current' = "none"
    BY <1>1, <1>3, Advance
  <2>2. WrittenTo(item, TRUE)
    BY <1>3 DEF SourcesInv, ForTarget
  <2>3. AllWritten(TRUE) /\ item > 1
    BY <1>1, <1>3, <2>2, WrittenAtEnd
  <2>4. retargeted
    BY <1>3, <2>3, Zenon DEF SourcesInv, ForBuild
  <2>5. QED
    BY <1>1, <2>1, <2>3, <2>4, SourcesLater DEF SourcesInv
<1>4. CASE current # "customize_sources_list"
  <2>1. current' \in {"upgrade_packages", "add_extra_ppas", "install_packages",
                      "customize_sources_list"}
    BY <1>1, <1>2, <1>4, Advance
  <2>2. imageDef.rootfs = "seed" /\ ~retargeted => AllWritten(FALSE) \/ Empty
    <3>1. CASE current = "create_rootfs" /\ imageDef.rootfs = "seed"
      <4>1. WrittenTo(item, FALSE)
        BY <3>1 DEF SourcesInv, ForBuild
      <4>2. QED
        BY <1>1, <3>1, <4>1, WrittenAtEnd
    <3>2. CASE current # "create_rootfs"
      BY <3>2 DEF SourcesInv, ForBuild
    <3>3. QED
      BY <3>1, <3>2
  <2>3. QED
    BY <1>1, <2>1, <2>2, SourcesLater DEF SourcesInv
<1>5. QED
  BY <1>3, <1>4

LEMMA SourcesAtRetry == ASSUME Control, SourcesInv, Retry PROVE SourcesInv'
<1>1. /\ imageDef' = imageDef /\ original' = original /\ step' \in 2..step
      /\ item' = 1 /\ files' = files /\ retargeted' = retargeted
  BY DEF Retry
<1>2. /\ current' # "create_rootfs" /\ current # "create_rootfs"
      /\ current' = "none" => current = "none"
  BY <1>1, GoBack
<1>3. current' = "none" => AllWritten(TRUE) /\ retargeted
  BY <1>2, Zenon DEF SourcesInv, ForTarget, ForBuild
<1>4. imageDef.rootfs = "seed" /\ ~retargeted => AllWritten(FALSE) \/ Empty
  BY <1>2, Zenon DEF SourcesInv, ForBuild
<1>5. QED
  BY <1>1, <1>2, <1>3, <1>4, SourcesLater DEF SourcesInv

LEMMA SourcesStep == ASSUME Types, SourcesInv, [Next]_vars PROVE SourcesInv'
<1>1. CASE WriteSources
  BY <1>1, SourcesAtWrite DEF Types
<1>2. CASE AddPPA \/ RemovePPA
  <2>1. /\ imageDef' = imageDef /\ original' = original /\ files' = files
        /\ retargeted' = retargeted /\ step' = step
        /\ current \in {"add_extra_ppas", "clean_extra_ppas"}
    BY <1>2 DEF AddPPA, RemovePPA
  <2>2. QED
    BY <2>1, StageKept, SourcesSame
<1>3. CASE upgradePackages \/ installPackages
  BY <1>3, SourcesAtInstallation DEF Types
<1>4. CASE EndState
  BY <1>4, SourcesAtEnd DEF Types
<1>5. CASE Fail
  BY <1>5, SourcesAtFailure DEF Types
<1>6. CASE Retry
  BY <1>6, SourcesAtRetry DEF Types
<1>7. CASE UNCHANGED vars
  BY <1>7, StageKept, SourcesSame DEF vars
<1>8. QED
  BY <1>1, <1>2, <1>3, <1>4, <1>5, <1>6, <1>7 DEF Next

LEMMA SourcesInit == Init => SourcesInv
<1> SUFFICES ASSUME Init PROVE SourcesInv
  OBVIOUS
<1>1. Control /\ step = 1 /\ item = 1
  BY TypesInit DEF Types, Init
<1>2. current = "create_rootfs"
  BY <1>1, Stages
<1>3. OtherKept
  <2>1. files = original
    BY DEF Init
  <2>2. imageDef.rootfs = "seed" => original["ubuntu.sources"] = {}
    BY DEF Init, Files
  <2>3. QED
    BY <2>1, <2>2 DEF OtherKept
<1>4. QED
  BY <1>1, <1>2, <1>3 DEF SourcesInv, ForTarget, ForBuild, WrittenTo

LEMMA SourcesAlways == Spec => [](Types /\ SourcesInv)
<1>1. Types /\ SourcesInv /\ [Next]_vars => (Types /\ SourcesInv)'
  BY TypesStep, SourcesStep
<1>2. QED
  BY TypesInit, SourcesInit, <1>1, PTL DEF Spec

-----------------------------------------------------------------------------
(***************************************************************************)
(* What the files hold once all of them are written.                       *)
(***************************************************************************)
LEMMA FirstContents ==
    ASSUME NEW target \in BOOLEAN, imageDef \in Configs
    PROVE  FirstContent(target) \subseteq Ours
  BY LegacyEntries, Deb822Entries DEF FirstContent

LEMMA WholeContents ==
    ASSUME Types, OtherKept, NEW target \in BOOLEAN, AllWritten(target),
           imageDef.deb822 \/ imageDef.rootfs = "seed"
    PROVE  UNION {files[f] : f \in Files} = FirstContent(target)
<1>1. First \in Files /\ Files = {"sources.list", "ubuntu.sources"}
  BY DEF First, Files
<1>2. \A f \in Files : f # First => files[f] = {}
  <2>1. CASE imageDef.deb822
    BY <1>1, <2>1 DEF AllWritten, First
  <2>2. CASE ~imageDef.deb822
    BY <1>1, <2>2 DEF OtherKept, First
  <2>3. QED
    BY <2>1, <2>2
<1>3. files[First] = FirstContent(target)
  BY DEF AllWritten
<1>4. QED
  BY <1>1, <1>2, <1>3

\* In deb822 format no source of debootstrap, of the tarball or of the build is
\* left in a finished image; in legacy format sources.list alone is replaced,
\* and ubuntu.sources is as the rootfs came with it.
THEOREM SourcesCorrect == Spec => []OnlyTargetSources
<1>1. Types /\ SourcesInv => OnlyTargetSources
  <2> SUFFICES ASSUME Types, SourcesInv, done PROVE OnlyTargetSources
    BY DEF OnlyTargetSources
  <2>1. AllWritten(TRUE) /\ OtherKept
    BY Stages DEF Types, SourcesInv, ForTarget
  <2>2. files[First] = FirstContent(TRUE) /\ FirstContent(TRUE) \subseteq Ours
    BY <2>1, FirstContents DEF AllWritten, Types, Control
  <2>3. \A e \in files[First] : e.mirror # "elsewhere"
    BY <2>2 DEF Ours
  <2>4. CASE imageDef.deb822
    <3>1. First = "ubuntu.sources" /\ files["sources.list"] = {}
      BY <2>1, <2>4 DEF First, AllWritten
    <3>2. QED
      BY <2>3, <2>4, <3>1 DEF OnlyTargetSources, Files
  <2>5. CASE ~imageDef.deb822
    <3>1. First = "sources.list" /\ files["ubuntu.sources"] = original["ubuntu.sources"]
      BY <2>1, <2>5 DEF First, OtherKept
    <3>2. QED
      BY <2>3, <2>5, <3>1 DEF OnlyTargetSources, Files
  <2>6. QED
    BY <2>4, <2>5
<1>2. QED
  BY SourcesAlways, <1>1, PTL

\* The image has the suites of its pocket, whatever failed, unless a deb822
\* image asks for the security pocket: in both files in deb822 format, in
\* sources.list in legacy format.
THEOREM TargetCorrect ==
    ASSUME \A c \in Configs : c.deb822 => ToLower(c.pocket) # "security"
    PROVE  Spec => []TargetSuites
<1>1. Types /\ SourcesInv => TargetSuites
  <2> SUFFICES ASSUME Types, SourcesInv, done PROVE TargetSuites
    BY DEF TargetSuites
  <2>1. imageDef \in Configs /\ AllWritten(TRUE) /\ OtherKept
    BY Stages DEF Types, Control, SourcesInv, ForTarget
  <2>2. CASE imageDef.deb822
    <3>1. SuitesOf(deb822SourcesList(imageDef, TRUE)) =
            PocketIncludes[imageDef.pocket] \cup {"security"}
      BY <2>1, <2>2, Deb822Entries
    <3>2. UNION {files[f] : f \in Files} = deb822SourcesList(imageDef, TRUE)
      BY <2>1, <2>2, WholeContents DEF FirstContent
    <3>3. QED
      BY <2>2, <3>1, <3>2 DEF TargetSuites
  <2>3. CASE ~imageDef.deb822
    <3>1. SuitesOf(legacySourcesList(imageDef, TRUE)) = PocketIncludes[imageDef.pocket]
      BY <2>1, LegacyEntries
    <3>2. files["sources.list"] = legacySourcesList(imageDef, TRUE)
      BY <2>1, <2>3 DEF AllWritten, First, FirstContent
    <3>3. QED
      BY <2>3, <3>1, <3>2 DEF TargetSuites
  <2>4. QED
    BY <2>2, <2>3
<1>2. QED
  BY SourcesAlways, <1>1, PTL

\* Packages come from the suites of the pocket of the build, unless they are
\* upgraded or installed again after the sources of the image were written.
THEOREM BuildCorrect ==
    ASSUME \A c \in Configs : c.deb822 => ToLower(c.buildPocket) # "security"
    PROVE  Spec => []BuildSuites
<1>1. Init => BuildSuites
  BY DEF Init, BuildSuites
<1>2. ASSUME Types, SourcesInv, BuildSuites, [Next]_vars PROVE BuildSuites'
  <2>1. CASE upgradePackages \/ installPackages
    <3>0. runApt /\ current \in {"upgrade_packages", "install_packages"}
      BY <2>1 DEF upgradePackages, installPackages
    <3>1. /\ used'.entries = UNION {files[f] : f \in Files} /\ used'.early = ~retargeted
          /\ imageDef' = imageDef /\ current \in {"upgrade_packages", "install_packages"}
      BY <3>0 DEF runApt
    <3> SUFFICES ASSUME used'.entries # {}, ~retargeted, imageDef.rootfs = "seed"
                 PROVE  /\ PocketIncludes[imageDef.buildPocket] \subseteq
                              SuitesOf(used'.entries)
                        /\ SuitesOf(used'.entries) \subseteq
                              PocketIncludes[imageDef.buildPocket] \cup {"security"}
      BY <3>1 DEF BuildSuites
    <3>2. ~Empty
      BY <3>1 DEF Empty
    <3>3. imageDef \in Configs /\ AllWritten(FALSE) /\ OtherKept
      <4>1. imageDef \in Configs /\ OtherKept
        BY <1>2 DEF Types, Control, SourcesInv
      <4>2. AllWritten(FALSE) \/ Empty
        BY <1>2, <3>1 DEF SourcesInv, ForBuild
      <4>3. QED
        BY <3>2, <4>1, <4>2
    <3>4. used'.entries = FirstContent(FALSE)
      BY <3>1, <3>3, <1>2, WholeContents
    <3>5. CASE imageDef.deb822
      <4>1. SuitesOf(deb822SourcesList(imageDef, FALSE)) =
              PocketIncludes[imageDef.buildPocket] \cup {"security"}
        BY <3>3, <3>5, Deb822Entries
      <4>2. QED
        BY <3>4, <3>5, <4>1 DEF FirstContent
    <3>6. CASE ~imageDef.deb822
      <4>1. SuitesOf(legacySourcesList(imageDef, FALSE)) =
              PocketIncludes[imageDef.buildPocket]
        BY <3>3, LegacyEntries
      <4>2. QED
        BY <3>4, <3>6, <4>1 DEF FirstContent
    <3>7. QED
      BY <3>5, <3>6
  <2>2. CASE ~(upgradePackages \/ installPackages)
    <3>1. used' = used /\ imageDef' = imageDef
      BY <1>2, <2>2 DEF Next, vars, WriteSources, AddPPA, RemovePPA, Remove, EndState,
                        Fail, Retry
    <3>2. QED
      BY <1>2, <3>1 DEF BuildSuites
  <2>3. QED
    BY <2>1, <2>2
<1>3. QED
  BY SourcesAlways, <1>1, <1>2, PTL DEF Spec
=============================================================================
