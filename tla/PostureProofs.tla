---------------------------- MODULE PostureProofs ----------------------------
(***************************************************************************)
(* Proofs about the checks on a site over time, for any site: what is said *)
(* of a CSP, of a certificate that runs out and of a lookup that fails is  *)
(* right, and a remedy that is followed pays.                              *)
(***************************************************************************)
EXTENDS Posture, FiniteSetTheorems, SequenceTheorems, WellFoundedInduction, TLAPS

(* A non-empty set of naturals has a least element... *)
LEMMA Least ==
  ASSUME NEW T \in SUBSET Nat, T # {}
  PROVE  Min(T) \in T /\ \A k \in T : Min(T) <= k
<1> DEFINE R == {p \in Nat \X Nat : p[1] < p[2]}
<1>1. IsWellFoundedOn(R, Nat)
  BY NatLessThanWellFounded DEF OpToRel
<1> HIDE DEF R
<1>2. PICK m \in T : \A k \in T : <<k, m>> \notin R
  BY <1>1, WFMin
<1>3. \A k \in T : <<k, m>> \notin R => m <= k
  BY DEF R
<1>4. \A k \in T : m <= k
  BY <1>2, <1>3
<1> QED BY <1>4 DEF Min

(* ... and where there is a bound, a greatest one. *)
LEMMA Greatest ==
  ASSUME NEW n \in Nat, NEW T \in SUBSET (1..n), T # {}
  PROVE  Max(T) \in T /\ \A k \in T : Max(T) >= k
<1> DEFINE U == {n - k : k \in T}
<1>1. U \in SUBSET Nat /\ U # {}
  OBVIOUS
<1> HIDE DEF U
<1>2. Min(U) \in U /\ \A u \in U : Min(U) <= u
  BY <1>1, Least
<1>3. PICK m \in T : Min(U) = n - m
  BY <1>2 DEF U
<1>4. \A k \in T : n - m <= n - k
  BY <1>2, <1>3 DEF U
<1>5. \A k \in T : m >= k
  BY <1>4
<1> QED BY <1>5 DEF Max

-----------------------------------------------------------------------------
(* The directive of a name that counts is the first one.                     *)
LEMMA FirstChunkIs ==
  ASSUME NEW csp \in Csp, NEW name
  PROVE  LET at == FirstChunk(csp, name)
         IN  /\ at = 0 => \A i \in DOMAIN csp : csp[i].name # name
             /\ at # 0 => /\ at \in DOMAIN csp /\ csp[at].name = name
                          /\ \A j \in DOMAIN csp : j < at => csp[j].name # name
<1> DEFINE I == {i \in 1..Len(csp) : csp[i].name = name}
<1>1. DOMAIN csp = 1..Len(csp) /\ Len(csp) \in Nat
  BY LenProperties DEF Csp
<1>2. FirstChunk(csp, name) = IF I # {} THEN Min(I) ELSE 0
  BY DEF FirstChunk, SelectInSeq
<1>3. I \in SUBSET Nat
  BY <1>1
<1>4. I # {} => Min(I) \in I /\ \A k \in I : Min(I) <= k
  BY <1>3, Least
<1>5. CASE I = {}
  BY <1>1, <1>2, <1>5
<1>6. CASE I # {}
  <2>1. FirstChunk(csp, name) = Min(I)
    BY <1>2, <1>6
  <2>2. Min(I) \in 1..Len(csp) /\ csp[Min(I)].name = name /\ Min(I) # 0
    BY <1>4, <1>6
  <2>3. \A j \in 1..Len(csp) : j < Min(I) => csp[j].name # name
    BY <1>1, <1>4, <1>6, <2>2
  <2> QED BY <1>1, <2>1, <2>2, <2>3
<1> QED BY <1>5, <1>6

(* There is but one place like it. *)
LEMMA FirstChunkUnique ==
  ASSUME NEW csp \in Csp, NEW name, NEW i \in DOMAIN csp, csp[i].name = name,
         \A j \in DOMAIN csp : j < i => csp[j].name # name
  PROVE  FirstChunk(csp, name) = i
<1>1. DOMAIN csp \subseteq Nat
  BY LenProperties DEF Csp
<1> DEFINE at == FirstChunk(csp, name)
<1>2. /\ at # 0
      /\ at \in DOMAIN csp /\ csp[at].name = name
      /\ \A j \in DOMAIN csp : j < at => csp[j].name # name
  BY FirstChunkIs
<1> HIDE DEF at
<1>3. ~(at < i) /\ ~(i < at) /\ at \in Nat /\ i \in Nat
  BY <1>1, <1>2
<1> QED BY <1>3 DEF at

(* What _parse_csp makes of a header. *)
LEMMA Parsed ==
  ASSUME NEW csp \in Csp
  PROVE  /\ DOMAIN ParseCsp(csp) \subseteq Word
         /\ \A name : name \in DOMAIN ParseCsp(csp) <=> FirstChunk(csp, name) # 0
         /\ \A name \in DOMAIN ParseCsp(csp) :
              /\ FirstChunk(csp, name) \in DOMAIN csp
              /\ ParseCsp(csp)[name] = csp[FirstChunk(csp, name)].sources
              /\ ParseCsp(csp)[name] \in SUBSET Word
<1>1. DOMAIN ParseCsp(csp) = {csp[i].name : i \in DOMAIN csp}
  BY DEF ParseCsp, ToSet
<1>2. \A i \in DOMAIN csp : csp[i] \in [name : Word, sources : SUBSET Word]
  BY ElementOfSeq, LenProperties DEF Csp
<1>3. \A name : name \in DOMAIN ParseCsp(csp) <=> FirstChunk(csp, name) # 0
  BY <1>1, FirstChunkIs
<1>4. \A name \in DOMAIN ParseCsp(csp) : FirstChunk(csp, name) \in DOMAIN csp
  BY <1>3, FirstChunkIs
<1>5. \A name \in DOMAIN ParseCsp(csp) :
        ParseCsp(csp)[name] = csp[FirstChunk(csp, name)].sources
  BY DEF ParseCsp
<1> QED BY <1>1, <1>2, <1>3, <1>4, <1>5

(* The sources of a directive, if there is one. *)
Get(csp, name) ==
  IF name \in DOMAIN ParseCsp(csp) THEN ParseCsp(csp)[name] ELSE {}

LEMMA SourcesGot ==
  ASSUME NEW csp, NEW name
  PROVE  SourcesOr(ParseCsp(csp), name) =
           IF Get(csp, name) # {} THEN Get(csp, name) ELSE Get(csp, "default-src")
BY DEF SourcesOr, Get

LEMMA GetIsSet == \A csp \in Csp : \A name : Get(csp, name) \in SUBSET Word
BY Parsed DEF Get

NotEmpty(sources) == IF sources = {} THEN {"'none'"} ELSE sources

(* A directive that is set has these sources, and no other is touched. *)
LEMMA DirectiveSet ==
  ASSUME NEW csp \in Csp, NEW name \in Word, NEW sources \in SUBSET Word
  PROVE  LET new == WithDirective(csp, name, sources)
         IN  /\ new \in Csp
             /\ Get(new, name) = NotEmpty(sources)
             /\ \A other : other # name => Get(new, other) = Get(csp, other)
             /\ \A other : other \in DOMAIN ParseCsp(new) <=>
                             other = name \/ other \in DOMAIN ParseCsp(csp)
<1> DEFINE new == WithDirective(csp, name, sources)
           at == FirstChunk(csp, name)
           chunk == [name |-> name, sources |-> NotEmpty(sources)]
<1>1. new = IF at = 0 THEN Append(csp, chunk) ELSE [csp EXCEPT ![at] = chunk]
  BY DEF WithDirective, Chunk, NotEmpty
<1>11. NotEmpty(sources) \in SUBSET Word
  <2>1. "'none'" \in Word
    BY DEF Word
  <2> QED BY <2>1 DEF NotEmpty
<1>2. chunk \in [name : Word, sources : SUBSET Word] /\ chunk.name = name
      /\ chunk.sources = NotEmpty(sources)
  BY <1>11
<1>3. DOMAIN csp = 1..Len(csp) /\ Len(csp) \in Nat
  BY LenProperties DEF Csp
<1>4. /\ at = 0 => \A i \in DOMAIN csp : csp[i].name # name
      /\ at # 0 => /\ at \in DOMAIN csp /\ csp[at].name = name
                   /\ \A j \in DOMAIN csp : j < at => csp[j].name # name
  BY FirstChunkIs
<1> DEFINE put == IF at = 0 THEN Len(csp) + 1 ELSE at
<1> HIDE DEF new, at, chunk
<1>5. /\ new \in Csp /\ put \in DOMAIN new /\ new[put] = chunk
      /\ DOMAIN csp \subseteq DOMAIN new
      /\ \A i \in DOMAIN new : i # put => i \in DOMAIN csp /\ new[i] = csp[i]
      /\ \A i \in DOMAIN csp : i = put => csp[i].name = name
      /\ \A j \in DOMAIN csp : j < put => csp[j].name # name
      /\ put \in Nat /\ DOMAIN new \subseteq Nat
  <2>1. CASE at = 0
    <3>1. new = Append(csp, chunk) /\ put = Len(csp) + 1
      BY <1>1, <2>1
    <3>2. /\ new \in Csp /\ Len(new) = Len(csp) + 1 /\ new[Len(csp) + 1] = chunk
          /\ \A i \in 1..Len(csp) : new[i] = csp[i]
      BY <1>2, <3>1, AppendProperties DEF Csp
    <3>3. DOMAIN new = 1..(Len(csp) + 1)
      BY <3>2, LenProperties DEF Csp
    <3>4. put \notin DOMAIN csp
      BY <1>3, <3>1
    <3>5. \A i \in DOMAIN new : i # put => i \in DOMAIN csp
      BY <1>3, <3>1, <3>3
    <3> HIDE DEF put
    <3> QED BY <1>3, <1>4, <2>1, <3>1, <3>2, <3>3, <3>4, <3>5
  <2>2. CASE at # 0
    <3>1. new = [csp EXCEPT ![at] = chunk] /\ put = at
      BY <1>1, <2>2
    <3>2. at \in 1..Len(csp)
      BY <1>3, <1>4, <2>2
    <3>3. new \in Csp /\ Len(new) = Len(csp)
      BY <1>2, <3>1, <3>2, ExceptSeq DEF Csp
    <3>4. DOMAIN new = DOMAIN csp
      BY <3>1
    <3>5. \A i \in DOMAIN csp : new[i] = IF i = at THEN chunk ELSE csp[i]
      BY <3>1
    <3> HIDE DEF put
    <3> QED BY <1>3, <1>4, <2>2, <3>1, <3>2, <3>3, <3>4, <3>5
  <2> QED BY <2>1, <2>2
<1> HIDE DEF put
<1>6. FirstChunk(new, name) = put
  <2>1. \A j \in DOMAIN new : j < put => new[j].name # name
    BY <1>5
  <2> QED BY <1>2, <1>5, <2>1, FirstChunkUnique
<1>7. put # 0
  BY <1>5, LenProperties DEF Csp
<1>8. name \in DOMAIN ParseCsp(new) /\ Get(new, name) = NotEmpty(sources)
  BY <1>2, <1>5, <1>6, <1>7, Parsed DEF Get
<1>9. ASSUME NEW other, other # name PROVE FirstChunk(new, other) = FirstChunk(csp, other)
  <2> DEFINE old == FirstChunk(csp, other)
  <2>1. /\ old = 0 => \A i \in DOMAIN csp : csp[i].name # other
        /\ old # 0 => /\ old \in DOMAIN csp /\ csp[old].name = other
                      /\ \A j \in DOMAIN csp : j < old => csp[j].name # other
    BY FirstChunkIs
  <2> HIDE DEF old
  <2>2. CASE old = 0
    <3>1. \A i \in DOMAIN new : new[i].name # other
      BY <1>2, <1>5, <1>9, <2>1, <2>2
    <3> QED BY <1>5, <2>2, <3>1, FirstChunkIs DEF old
  <2>3. CASE old # 0
    <3>1. old # put
      BY <1>5, <1>9, <2>1, <2>3
    <3>2. old \in DOMAIN new /\ new[old].name = other
      BY <1>5, <2>1, <2>3, <3>1
    <3>3. \A j \in DOMAIN new : j < old => new[j].name # other
      BY <1>2, <1>5, <1>9, <2>1, <2>3
    <3> QED BY <1>5, <3>2, <3>3, FirstChunkUnique DEF old
  <2> QED BY <2>2, <2>3
<1>10. ASSUME NEW other, other # name
       PROVE  /\ other \in DOMAIN ParseCsp(new) <=> other \in DOMAIN ParseCsp(csp)
              /\ Get(new, other) = Get(csp, other)
  <2>1. other \in DOMAIN ParseCsp(new) <=> other \in DOMAIN ParseCsp(csp)
    BY <1>5, <1>9, <1>10, Parsed
  <2>2. ASSUME other \in DOMAIN ParseCsp(csp) PROVE ParseCsp(new)[other] = ParseCsp(csp)[other]
    <3>1. FirstChunk(csp, other) \in DOMAIN csp /\ csp[FirstChunk(csp, other)].name = other
      BY <2>2, Parsed, FirstChunkIs
    <3>2. FirstChunk(csp, other) # put
      BY <1>5, <1>10, <3>1
    <3>3. new[FirstChunk(csp, other)] = csp[FirstChunk(csp, other)]
      BY <1>5, <3>1, <3>2
    <3> QED BY <1>5, <1>9, <1>10, <2>1, <2>2, <3>3, Parsed
  <2> QED BY <2>1, <2>2 DEF Get
<1> QED BY <1>5, <1>8, <1>10 DEF new

-----------------------------------------------------------------------------
(* What is said of a CSP.                                                    *)
LEMMA InWhen ==
  ASSUME NEW condition \in BOOLEAN, NEW rule, NEW severity, NEW x
  PROVE  x \in When(condition, rule, severity) <=>
           condition /\ x = [rule |-> rule, severity |-> severity, about |-> ""]
BY DEF When, Finding

(* The sources that script-src and object-src come down to. *)
Scripts(csp) == SourcesOr(ParseCsp(csp), "script-src")
Objects(csp) == SourcesOr(ParseCsp(csp), "object-src")

Say(rule, severity) == [rule |-> rule, severity |-> severity, about |-> ""]

LEMMA InQuality ==
  ASSUME NEW csp, NEW x
  PROVE  x \in CspQualityFindings(csp) <=>
           \/ x = Say("csp-unsafe-inline", "medium")
              /\ "'unsafe-inline'" \in EffectiveScriptSrc(ParseCsp(csp))
           \/ x = Say("csp-unsafe-eval", "medium") /\ "'unsafe-eval'" \in Scripts(csp)
           \/ x = Say("csp-broad-script-src", "medium")
              /\ TooBroad(EffectiveScriptSrc(ParseCsp(csp)))
           \/ x = Say("csp-broad-object-src", "low") /\ TooBroad(Objects(csp))
           \/ x = Say("csp-missing-base-uri", "low") /\ "base-uri" \notin DOMAIN ParseCsp(csp)
<1> DEFINE inline == "'unsafe-inline'" \in EffectiveScriptSrc(ParseCsp(csp))
           eval == "'unsafe-eval'" \in Scripts(csp)
           script == TooBroad(EffectiveScriptSrc(ParseCsp(csp)))
           object == TooBroad(Objects(csp))
           base == "base-uri" \notin DOMAIN ParseCsp(csp)
<1>1. CspQualityFindings(csp) = When(inline, "csp-unsafe-inline", "medium")
        \cup When(eval, "csp-unsafe-eval", "medium")
        \cup When(script, "csp-broad-script-src", "medium")
        \cup When(object, "csp-broad-object-src", "low")
        \cup When(base, "csp-missing-base-uri", "low")
  BY DEF CspQualityFindings, Scripts, Objects, EffectiveObjectSrc
<1>2. /\ inline \in BOOLEAN /\ eval \in BOOLEAN /\ script \in BOOLEAN
      /\ object \in BOOLEAN /\ base \in BOOLEAN
  BY DEF TooBroad
<1> HIDE DEF inline, eval, script, object, base
<1>3. /\ x \in When(inline, "csp-unsafe-inline", "medium")
           <=> inline /\ x = Say("csp-unsafe-inline", "medium")
      /\ x \in When(eval, "csp-unsafe-eval", "medium")
           <=> eval /\ x = Say("csp-unsafe-eval", "medium")
      /\ x \in When(script, "csp-broad-script-src", "medium")
           <=> script /\ x = Say("csp-broad-script-src", "medium")
      /\ x \in When(object, "csp-broad-object-src", "low")
           <=> object /\ x = Say("csp-broad-object-src", "low")
      /\ x \in When(base, "csp-missing-base-uri", "low")
           <=> base /\ x = Say("csp-missing-base-uri", "low")
  BY <1>2, InWhen DEF Say
<1> HIDE DEF Say
<1>4. x \in CspQualityFindings(csp) <=>
        \/ inline /\ x = Say("csp-unsafe-inline", "medium")
        \/ eval /\ x = Say("csp-unsafe-eval", "medium")
        \/ script /\ x = Say("csp-broad-script-src", "medium")
        \/ object /\ x = Say("csp-broad-object-src", "low")
        \/ base /\ x = Say("csp-missing-base-uri", "low")
  BY <1>1, <1>3, Zenon
<1> QED BY <1>4 DEF inline, eval, script, object, base

(* Which rules that makes. *)
LEMMA RulesFound ==
  ASSUME NEW csp
  PROVE  LET found == {f.rule : f \in CspQualityFindings(csp)}
         IN  /\ "csp-unsafe-inline" \in found <=>
                  "'unsafe-inline'" \in EffectiveScriptSrc(ParseCsp(csp))
             /\ "csp-unsafe-eval" \in found <=> "'unsafe-eval'" \in Scripts(csp)
             /\ "csp-broad-script-src" \in found <=> TooBroad(EffectiveScriptSrc(ParseCsp(csp)))
             /\ "csp-broad-object-src" \in found <=> TooBroad(Objects(csp))
<1> DEFINE found == {f.rule : f \in CspQualityFindings(csp)}
<1>1. \A rule : rule \in found <=> \E f \in CspQualityFindings(csp) : f.rule = rule
  OBVIOUS
<1> HIDE DEF found
<1>6. /\ Say("csp-unsafe-inline", "medium").rule = "csp-unsafe-inline"
      /\ Say("csp-unsafe-eval", "medium").rule = "csp-unsafe-eval"
      /\ Say("csp-broad-script-src", "medium").rule = "csp-broad-script-src"
      /\ Say("csp-broad-object-src", "low").rule = "csp-broad-object-src"
      /\ Say("csp-missing-base-uri", "low").rule = "csp-missing-base-uri"
  BY DEF Say
<1>7. \A x : x \in CspQualityFindings(csp) <=>
           \/ x = Say("csp-unsafe-inline", "medium")
              /\ "'unsafe-inline'" \in EffectiveScriptSrc(ParseCsp(csp))
           \/ x = Say("csp-unsafe-eval", "medium") /\ "'unsafe-eval'" \in Scripts(csp)
           \/ x = Say("csp-broad-script-src", "medium")
              /\ TooBroad(EffectiveScriptSrc(ParseCsp(csp)))
           \/ x = Say("csp-broad-object-src", "low") /\ TooBroad(Objects(csp))
           \/ x = Say("csp-missing-base-uri", "low") /\ "base-uri" \notin DOMAIN ParseCsp(csp)
  BY InQuality
<1>2. "csp-unsafe-inline" \in found <=> "'unsafe-inline'" \in EffectiveScriptSrc(ParseCsp(csp))
  BY <1>1, <1>6, <1>7
<1>3. "csp-unsafe-eval" \in found <=> "'unsafe-eval'" \in Scripts(csp)
  BY <1>1, <1>6, <1>7
<1>4. "csp-broad-script-src" \in found <=> TooBroad(EffectiveScriptSrc(ParseCsp(csp)))
  BY <1>1, <1>6, <1>7
<1>5. "csp-broad-object-src" \in found <=> TooBroad(Objects(csp))
  BY <1>1, <1>6, <1>7
<1> QED BY <1>2, <1>3, <1>4, <1>5 DEF found

(* The browser's first directive of a name is the one _parse_csp keeps. *)
LEMMA FirstIsParsed ==
  ASSUME NEW csp \in Csp, NEW name
  PROVE  FirstNamed(csp, name) =
           IF name \in DOMAIN ParseCsp(csp) THEN {ParseCsp(csp)[name]} ELSE {}
<1> DEFINE I == {i \in DOMAIN csp : /\ csp[i].name = name
                                    /\ \A j \in 1..(i - 1) : csp[j].name # name}
           at == FirstChunk(csp, name)
<1>1. FirstNamed(csp, name) = {csp[i].sources : i \in I}
  BY DEF FirstNamed
<1>2. DOMAIN csp = 1..Len(csp) /\ Len(csp) \in Nat
  BY LenProperties DEF Csp
<1>3. /\ at = 0 => \A i \in DOMAIN csp : csp[i].name # name
      /\ at # 0 => /\ at \in DOMAIN csp /\ csp[at].name = name
                   /\ \A j \in DOMAIN csp : j < at => csp[j].name # name
  BY FirstChunkIs
<1>4. at # 0 <=> name \in DOMAIN ParseCsp(csp)
  BY Parsed
<1>5. at # 0 => ParseCsp(csp)[name] = csp[at].sources
  BY Parsed
<1> HIDE DEF at
<1>6. CASE at = 0
  <2>1. I = {}
    BY <1>3, <1>6
  <2> QED BY <1>1, <1>4, <1>6, <2>1
<1>7. CASE at # 0
  <2>1. at \in I
    BY <1>2, <1>3, <1>7
  <2>2. \A i \in I : i = at
    BY <1>2, <1>3, <1>7
  <2>3. I = {at}
    BY <2>1, <2>2
  <2> HIDE DEF I
  <2> QED BY <1>1, <1>4, <1>5, <1>7, <2>3
<1> QED BY <1>6, <1>7

LEMMA GoverningIs ==
  ASSUME NEW csp \in Csp, NEW name
  PROVE  /\ \A sources \in Governing(csp, name) : sources = {} \/ sources = SourcesOr(ParseCsp(csp), name)
         /\ Governing(csp, name) = {} => SourcesOr(ParseCsp(csp), name) = {}
         /\ Wellformed(csp) /\ SourcesOr(ParseCsp(csp), name) = {} => Governing(csp, name) = {}
         /\ SourcesOr(ParseCsp(csp), name) # {} /\ Wellformed(csp) =>
              /\ Governing(csp, name) = {SourcesOr(ParseCsp(csp), name)}
              /\ "'strict-dynamic'" \in SourcesOr(ParseCsp(csp), name) =>
                   SourcesOr(ParseCsp(csp), name) \cap HashOrNonce # {}
<1> DEFINE parsed == ParseCsp(csp)
<1>1. Governing(csp, name) =
        IF name \in DOMAIN parsed THEN {parsed[name]}
        ELSE IF "default-src" \in DOMAIN parsed THEN {parsed["default-src"]} ELSE {}
  BY FirstIsParsed DEF Governing, Fallback
<1>2. ASSUME Wellformed(csp), NEW n \in DOMAIN parsed
      PROVE  /\ parsed[n] # {}
             /\ "'strict-dynamic'" \in parsed[n] => parsed[n] \cap HashOrNonce # {}
  <2>1. /\ FirstChunk(csp, n) \in DOMAIN csp
        /\ parsed[n] = csp[FirstChunk(csp, n)].sources
    BY <1>2, Parsed
  <2>2. csp[FirstChunk(csp, n)] \in ToSet(csp)
    BY <2>1 DEF ToSet
  <2> QED BY <1>2, <2>1, <2>2 DEF Wellformed
<1> HIDE DEF parsed
<1>3. SourcesOr(ParseCsp(csp), name) =
        IF name \in DOMAIN parsed /\ parsed[name] # {} THEN parsed[name]
        ELSE IF "default-src" \in DOMAIN parsed THEN parsed["default-src"] ELSE {}
  BY DEF SourcesOr, parsed
<1> QED BY <1>1, <1>2, <1>3

(* Without a directive of their own all scripts are script-src's.            *)
LEMMA ScriptsGoverned ==
  ASSUME NEW csp \in Csp, ~NamesFiner(csp), NEW finer \in FinerDirectives
  PROVE  GoverningScripts(csp, finer) = Governing(csp, "script-src")
<1>1. \A i \in DOMAIN csp : csp[i] \in ToSet(csp)
  BY DEF ToSet
<1>2. \A i \in DOMAIN csp : csp[i].name # finer
  BY <1>1 DEF NamesFiner
<1>3. FirstNamed(csp, finer) = {}
  BY <1>2 DEF FirstNamed
<1> QED BY <1>3 DEF GoverningScripts, Fallback

(* What is found is what a browser lets run. *)
LEMMA JudgedRight ==
  ASSUME NEW csp \in Csp
  PROVE  LET found == {f.rule : f \in CspQualityFindings(csp)}
             broad == "csp-broad-script-src" \in found
         IN  /\ EvalRuns(csp) => "csp-unsafe-eval" \in found \/ broad
             /\ AnyObjectRuns(csp) => "csp-broad-object-src" \in found
             /\ Wellformed(csp) =>
                  /\ "csp-unsafe-eval" \in found => EvalRuns(csp)
                  /\ "csp-broad-object-src" \in found => AnyObjectRuns(csp)
             /\ ~NamesFiner(csp) =>
                  /\ InlineRuns(csp) => "csp-unsafe-inline" \in found \/ broad
                  /\ AnyScriptRuns(csp) => broad
                  /\ Wellformed(csp) =>
                       /\ "csp-unsafe-inline" \in found => InlineRuns(csp)
                       /\ broad => AnyScriptRuns(csp)
<1> DEFINE found == {f.rule : f \in CspQualityFindings(csp)}
           scripts == Scripts(csp)
           objects == Objects(csp)
           effective == scripts \ (Inline(scripts) \cup Listed(scripts))
<1>1. /\ "csp-unsafe-inline" \in found <=> "'unsafe-inline'" \in effective
      /\ "csp-unsafe-eval" \in found <=> "'unsafe-eval'" \in scripts
      /\ "csp-broad-script-src" \in found <=> TooBroad(effective)
      /\ "csp-broad-object-src" \in found <=> TooBroad(objects)
  <2>1. EffectiveScriptSrc(ParseCsp(csp)) = effective
    BY DEF EffectiveScriptSrc, Scripts
  <2> HIDE DEF effective, scripts, objects, found
  <2> QED BY <2>1, RulesFound DEF found, scripts, objects
<1> HIDE DEF found
<1>2. /\ \A sources \in Governing(csp, "script-src") : sources = {} \/ sources = scripts
      /\ Governing(csp, "script-src") = {} => scripts = {}
      /\ scripts # {} /\ Wellformed(csp) =>
           /\ Governing(csp, "script-src") = {scripts}
           /\ "'strict-dynamic'" \in scripts => scripts \cap HashOrNonce # {}
      /\ scripts = {} /\ Wellformed(csp) => Governing(csp, "script-src") = {}
  BY GoverningIs DEF Scripts
<1>3. /\ \A sources \in Governing(csp, "object-src") : sources = {} \/ sources = objects
      /\ Governing(csp, "object-src") = {} => objects = {}
      /\ objects # {} /\ Wellformed(csp) => Governing(csp, "object-src") = {objects}
      /\ objects = {} /\ Wellformed(csp) => Governing(csp, "object-src") = {}
  BY GoverningIs DEF Objects
<1> HIDE DEF scripts, objects
<1>4. ~NamesFiner(csp) => (InlineRuns(csp) <=>
        \A sources \in Governing(csp, "script-src") :
          /\ "'unsafe-inline'" \in sources
          /\ sources \cap (HashOrNonce \cup {"'strict-dynamic'"}) = {})
  BY ScriptsGoverned DEF InlineRuns, Runs, FinerDirectives
<1>5. EvalRuns(csp) <=>
        \A sources \in Governing(csp, "script-src") : "'unsafe-eval'" \in sources
  BY DEF EvalRuns, Runs
<1>6. ~NamesFiner(csp) => (AnyScriptRuns(csp) <=>
        \A sources \in Governing(csp, "script-src") :
          sources \cap BroadSources # {} /\ "'strict-dynamic'" \notin sources)
  BY ScriptsGoverned DEF AnyScriptRuns, Runs, FinerDirectives
<1>7. AnyObjectRuns(csp) <=>
        \A sources \in Governing(csp, "object-src") : sources \cap BroadSources # {}
  BY DEF AnyObjectRuns, Runs
<1>8. /\ scripts = {} => effective = {}
      /\ scripts \cap HashOrNonce = {} => effective = scripts
      /\ "'strict-dynamic'" \notin scripts =>
           effective = scripts \ Inline(scripts)
      /\ scripts \cap HashOrNonce # {} => "'unsafe-inline'" \notin effective /\ effective # {}
      /\ scripts \cap HashOrNonce # {} /\ "'strict-dynamic'" \in scripts =>
           effective \cap BroadSources = {}
  BY DEF Inline, Listed, HashOrNonce, BroadSources
<1>9. effective \cap BroadSources \subseteq scripts \cap BroadSources
      /\ ("'strict-dynamic'" \notin scripts => effective \cap BroadSources = scripts \cap BroadSources)
  BY <1>8 DEF Inline, BroadSources
<1> HIDE DEF effective
<1>10. ~NamesFiner(csp) /\ InlineRuns(csp) =>
         "csp-unsafe-inline" \in found \/ "csp-broad-script-src" \in found
  BY <1>1, <1>2, <1>4, <1>8 DEF TooBroad
<1>11. EvalRuns(csp) => "csp-unsafe-eval" \in found \/ "csp-broad-script-src" \in found
  BY <1>1, <1>2, <1>5, <1>8 DEF TooBroad
<1>12. ~NamesFiner(csp) /\ AnyScriptRuns(csp) => "csp-broad-script-src" \in found
  <2>1. CASE Governing(csp, "script-src") = {}
    BY <1>1, <1>2, <1>8, <2>1 DEF TooBroad
  <2>2. ASSUME NEW sources \in Governing(csp, "script-src"), ~NamesFiner(csp), AnyScriptRuns(csp)
        PROVE  TooBroad(effective)
    <3>1. sources \cap BroadSources # {} /\ "'strict-dynamic'" \notin sources
      BY <1>6, <2>2
    <3>2. sources = scripts
      BY <1>2, <3>1
    <3> QED BY <1>9, <3>1, <3>2 DEF TooBroad
  <2> QED BY <1>1, <2>1, <2>2
<1>13. AnyObjectRuns(csp) => "csp-broad-object-src" \in found
  <2>1. CASE Governing(csp, "object-src") = {}
    BY <1>1, <1>3, <2>1 DEF TooBroad
  <2>2. ASSUME NEW sources \in Governing(csp, "object-src"), AnyObjectRuns(csp)
        PROVE  TooBroad(objects)
    <3>1. sources \cap BroadSources # {} /\ sources = objects
      BY <1>3, <1>7, <2>2
    <3> QED BY <3>1 DEF TooBroad
  <2> QED BY <1>1, <2>1, <2>2
<1>14. ASSUME Wellformed(csp)
       PROVE  /\ "csp-unsafe-eval" \in found => EvalRuns(csp)
              /\ "csp-broad-object-src" \in found => AnyObjectRuns(csp)
              /\ ~NamesFiner(csp) =>
                   /\ "csp-unsafe-inline" \in found => InlineRuns(csp)
                   /\ "csp-broad-script-src" \in found => AnyScriptRuns(csp)
  <2>1. scripts = {} => /\ EvalRuns(csp)
                        /\ ~NamesFiner(csp) => InlineRuns(csp) /\ AnyScriptRuns(csp)
    BY <1>2, <1>4, <1>5, <1>6, <1>14
  <2>2. objects = {} => AnyObjectRuns(csp)
    BY <1>3, <1>7, <1>14
  <2>3. ASSUME "'unsafe-inline'" \in effective, scripts # {}, ~NamesFiner(csp)
        PROVE  InlineRuns(csp)
    <3>1. /\ Governing(csp, "script-src") = {scripts} /\ scripts \cap HashOrNonce = {}
          /\ "'strict-dynamic'" \notin scripts /\ effective = scripts
      BY <1>2, <1>8, <1>14, <2>3
    <3> QED BY <1>4, <2>3, <3>1
  <2>4. ASSUME "'unsafe-eval'" \in scripts PROVE EvalRuns(csp)
    BY <1>2, <1>5, <1>14, <2>4
  <2>5. ASSUME TooBroad(effective), scripts # {}, ~NamesFiner(csp)
        PROVE  AnyScriptRuns(csp)
    <3>1. /\ Governing(csp, "script-src") = {scripts}
          /\ "'strict-dynamic'" \in scripts => scripts \cap HashOrNonce # {}
      BY <1>2, <1>14, <2>5
    <3>2. effective # {}
      BY <1>8, <2>5
    <3>3. effective \cap BroadSources # {}
      BY <2>5, <3>2 DEF TooBroad
    <3>4. scripts \cap BroadSources # {} /\ "'strict-dynamic'" \notin scripts
      BY <1>8, <1>9, <3>1, <3>3
    <3> QED BY <1>6, <2>5, <3>1, <3>4
  <2>6. ASSUME TooBroad(objects), objects # {} PROVE AnyObjectRuns(csp)
    <3>1. Governing(csp, "object-src") = {objects} /\ objects \cap BroadSources # {}
      BY <1>3, <1>14, <2>6 DEF TooBroad
    <3> QED BY <1>7, <3>1
  <2> QED BY <1>1, <2>1, <2>2, <2>3, <2>4, <2>5, <2>6
<1> QED BY <1>10, <1>11, <1>12, <1>13, <1>14 DEF found

-----------------------------------------------------------------------------
(* What is said of a host. *)
CertRules ==
  {"cert-expired", "cert-hostname-mismatch", "cert-untrusted-chain", "cert-self-signed",
   "cert-invalid", "cert-expiring-soon"}

LEMMA Classified == \A phrases : ClassifyCertError(phrases) \in CertRules
BY DEF ClassifyCertError, CertRules

LEMMA InTls ==
  ASSUME NEW url, NEW h, NEW offset, NEW x
  PROVE  x \in TlsFindings(url, h, offset) <=>
           /\ url.scheme = "https" /\ h.reachable
           /\ \/ h.rejected # {} /\ x = Say(ClassifyCertError(h.rejected), "high")
              \/ /\ h.rejected = {}
                 /\ \/ DaysLeft(h, offset) < 0 /\ x = Say("cert-expired", "high")
                    \/ /\ 0 <= DaysLeft(h, offset) /\ DaysLeft(h, offset) < ExpiringSoon
                       /\ x = Say("cert-expiring-soon", "medium")
                    \/ /\ h.protocol \in {"TLSv1", "TLSv1.1"}
                       /\ x = Say("deprecated-tls", "high")
BY DEF TlsFindings, VerificationFailed, ExpiryFindings, When, Finding, Say

(* Half a day this way or that is a day at most. *)
LEMMA DaysAre ==
  ASSUME NEW h \in Host, NEW offset \in -1..2
  PROVE  /\ DaysLeft(h, offset) \in Int
         /\ h.left < HalfDays * (ExpiringSoon - 1) => DaysLeft(h, offset) < ExpiringSoon
         /\ h.left > HalfDays * (ExpiringSoon + 1) => DaysLeft(h, offset) >= ExpiringSoon
<1>1. h.left \in Int
  BY DEF Host
<1>2. offset \in Int /\ -1 <= offset /\ offset <= 2
  OBVIOUS
<1> QED BY <1>1, <1>2 DEF DaysLeft, HalfDays, ExpiringSoon

LEMMA ToldInTime == TypeOK => ExpiryToldInTime
<1> SUFFICES ASSUME TypeOK, page.url.scheme = "https", ~page.probe, host.reachable
    PROVE LET severities == {f.severity : f \in {f \in OfHost : f.rule # "deprecated-tls"}}
          IN  /\ host.left < 0 => severities = {"high"}
              /\ host.left < HalfDays * (ExpiringSoon - 1) => severities # {}
              /\ host.rejected = {} /\ host.left > HalfDays * (ExpiringSoon + 1) =>
                   severities = {}
  BY DEF ExpiryToldInTime
<1> DEFINE told == {f \in OfHost : f.rule # "deprecated-tls"}
           severities == {f.severity : f \in told}
           days == DaysLeft(host, zone)
<1>1. OfHost = TlsFindings(page.url, host, zone)
  BY DEF OfHost
<1>2. host \in Host /\ zone \in -1..2
  BY DEF TypeOK
<1>3. CASE host.rejected # {}
  <2>1. \A x : x \in OfHost <=> x = Say(ClassifyCertError(host.rejected), "high")
    BY <1>1, <1>3, InTls
  <2>2. Say(ClassifyCertError(host.rejected), "high").rule # "deprecated-tls"
    BY Classified DEF Say, CertRules
  <2>3. told = {Say(ClassifyCertError(host.rejected), "high")}
    BY <2>1, <2>2
  <2>4. Say(ClassifyCertError(host.rejected), "high").severity = "high"
    BY DEF Say
  <2> HIDE DEF told
  <2>5. severities = {"high"}
    BY <2>3, <2>4
  <2> QED BY <1>3, <2>5 DEF told
<1>4. CASE host.rejected = {}
  <2>1. ~(host.left < 0)
    BY <1>2, <1>4 DEF Host
  <2>2. /\ days \in Int
        /\ host.left < HalfDays * (ExpiringSoon - 1) => days < ExpiringSoon
        /\ host.left > HalfDays * (ExpiringSoon + 1) => days >= ExpiringSoon
    BY <1>2, DaysAre
  <2> HIDE DEF days
  <2>3. \A x : x \in OfHost <=>
                 \/ days < 0 /\ x = Say("cert-expired", "high")
                 \/ 0 <= days /\ days < ExpiringSoon /\ x = Say("cert-expiring-soon", "medium")
                 \/ host.protocol \in {"TLSv1", "TLSv1.1"} /\ x = Say("deprecated-tls", "high")
    BY <1>1, <1>4, InTls DEF days
  <2>7. /\ Say("cert-expired", "high").rule = "cert-expired"
        /\ Say("cert-expiring-soon", "medium").rule = "cert-expiring-soon"
        /\ Say("deprecated-tls", "high").rule = "deprecated-tls"
    BY DEF Say
  <2>8. /\ days < 0 => Say("cert-expired", "high") \in OfHost
        /\ 0 <= days /\ days < ExpiringSoon => Say("cert-expiring-soon", "medium") \in OfHost
    BY <2>3
  <2>4. ASSUME days < ExpiringSoon PROVE told # {}
    <3>1. CASE days < 0
      BY <2>7, <2>8, <3>1
    <3>2. CASE 0 <= days
      BY <2>4, <2>7, <2>8, <3>2
    <3> QED BY <2>2, <3>1, <3>2
  <2>5. ASSUME days >= ExpiringSoon PROVE told = {}
    <3>1. ~(days < 0) /\ ~(days < ExpiringSoon)
      BY <2>2, <2>5 DEF ExpiringSoon
    <3> QED BY <2>3, <2>7, <3>1
  <2> HIDE DEF told
  <2>6. (told # {} => severities # {}) /\ (told = {} => severities = {})
    OBVIOUS
  <2> HIDE DEF severities
  <2> QED BY <2>1, <2>2, <2>4, <2>5, <2>6 DEF severities, told
<1> QED BY <1>3, <1>4

-----------------------------------------------------------------------------
(* What is said of DNS records. *)
LEMMA InSpf ==
  ASSUME NEW lookup, NEW x
  PROVE  LET spf == FirstOf("spf", lookup.records)
         IN  x \in SpfFindings(lookup) <=>
               \/ /\ spf # 0 /\ "+all" \in lookup.records[spf].terms
                  /\ x = Say("spf-allow-all", "high")
               \/ spf = 0 /\ Answered(lookup) /\ x = Say("missing-spf", "medium")
BY DEF SpfFindings, LookupComplete, Answered, When, Finding, Say

LEMMA InDmarc ==
  ASSUME NEW lookup, NEW x
  PROVE  LET dmarc == FirstOf("dmarc", lookup.records)
         IN  x \in DmarcFindings(lookup) <=>
               \/ Answered(lookup) /\ dmarc = 0 /\ x = Say("missing-dmarc", "medium")
               \/ /\ dmarc # 0 /\ lookup.records[dmarc].policy = "none"
                  /\ x = Say("dmarc-policy-none", "medium")
BY DEF DmarcFindings, Answered, When, Finding, Say

LEMMA InCaa ==
  ASSUME NEW lookup, NEW x
  PROVE  x \in CaaFindings(lookup) <=>
           Answered(lookup) /\ lookup.records = <<>> /\ x = Say("missing-caa", "low")
BY DEF CaaFindings, Answered, When, Finding, Say

(* The record that counts is the first of its kind. *)
LEMMA FirstOfIs ==
  ASSUME NEW Records, NEW records \in Seq(Records), NEW kind
  PROVE  LET at == FirstOf(kind, records)
         IN  /\ at = 0 => \A i \in DOMAIN records : records[i].kind # kind
             /\ at # 0 => /\ at \in DOMAIN records /\ records[at].kind = kind
                          /\ \A j \in DOMAIN records : j < at => records[j].kind # kind
<1> DEFINE I == {i \in 1..Len(records) : records[i].kind = kind}
<1>1. DOMAIN records = 1..Len(records) /\ Len(records) \in Nat
  BY LenProperties
<1>2. FirstOf(kind, records) = IF I # {} THEN Min(I) ELSE 0
  BY DEF FirstOf, SelectInSeq
<1>3. I \in SUBSET Nat
  BY <1>1
<1>4. I # {} => Min(I) \in I /\ \A k \in I : Min(I) <= k
  BY <1>3, Least
<1>5. CASE I = {}
  BY <1>1, <1>2, <1>5
<1>6. CASE I # {}
  <2>1. FirstOf(kind, records) = Min(I)
    BY <1>2, <1>6
  <2>2. Min(I) \in 1..Len(records) /\ records[Min(I)].kind = kind /\ Min(I) # 0
    BY <1>4, <1>6
  <2>3. \A j \in 1..Len(records) : j < Min(I) => records[j].kind # kind
    BY <1>1, <1>4, <1>6, <2>2
  <2> QED BY <1>1, <2>1, <2>2, <2>3
<1> QED BY <1>5, <1>6

Failed == [state |-> "failed", records |-> <<>>]

LEMMA NothingFailed ==
  SpfFindings(Failed) = {} /\ DmarcFindings(Failed) = {} /\ CaaFindings(Failed) = {}
<1>1. Failed.state = "failed" /\ Failed.records = <<>>
  BY DEF Failed
<1>2. ASSUME NEW kind PROVE FirstOf(kind, Failed.records) = 0
  BY <1>1 DEF FirstOf, SelectInSeq
<1> QED BY <1>1, <1>2, InSpf, InDmarc, InCaa DEF Answered

(* Each lookup has rules of its own. *)
LEMMA RulesOfLookups ==
  /\ \A lookup : \A x \in SpfFindings(lookup) : LookupOf(x.rule) = "txt"
  /\ \A lookup : \A x \in DmarcFindings(lookup) : LookupOf(x.rule) = "dmarc"
  /\ \A lookup : \A x \in CaaFindings(lookup) : LookupOf(x.rule) = "caa"
<1>1. /\ LookupOf("spf-allow-all") = "txt" /\ LookupOf("missing-spf") = "txt"
      /\ LookupOf("missing-dmarc") = "dmarc" /\ LookupOf("dmarc-policy-none") = "dmarc"
      /\ LookupOf("missing-caa") = "caa"
  BY DEF LookupOf
<1>2. \A rule, severity : Say(rule, severity).rule = rule
  BY DEF Say
<1>3. ASSUME NEW lookup, NEW x \in SpfFindings(lookup) PROVE LookupOf(x.rule) = "txt"
  BY <1>1, <1>2, InSpf
<1>4. ASSUME NEW lookup, NEW x \in DmarcFindings(lookup) PROVE LookupOf(x.rule) = "dmarc"
  BY <1>1, <1>2, InDmarc
<1>5. ASSUME NEW lookup, NEW x \in CaaFindings(lookup) PROVE LookupOf(x.rule) = "caa"
  BY <1>1, <1>2, InCaa
<1> QED BY <1>3, <1>4, <1>5

LEMMA FailureBlamesNobody ==
  ASSUME TypeOK, NEW lookup \in DOMAIN dns, LookupFails(lookup)
  PROVE  OfDns' = {f \in OfDns : LookupOf(f.rule) # lookup}
<1>1. dns' = [dns EXCEPT ![lookup] = Failed] /\ page' = page
  BY DEF LookupFails, Failed
<1>2. DOMAIN dns = {"txt", "dmarc", "caa"} /\ dns = [txt |-> dns.txt, dmarc |-> dns.dmarc, caa |-> dns.caa]
  BY DEF TypeOK, Dns
<1>3. CASE page.probe
  BY <1>1, <1>3 DEF OfDns
<1>4. CASE ~page.probe
  <2>1. OfDns = SpfFindings(dns.txt) \cup DmarcFindings(dns.dmarc) \cup CaaFindings(dns.caa)
    BY <1>4 DEF OfDns, DnsFindings
  <2>2. OfDns' = SpfFindings(dns'.txt) \cup DmarcFindings(dns'.dmarc) \cup CaaFindings(dns'.caa)
    BY <1>1, <1>4 DEF OfDns, DnsFindings
  <2>3. CASE lookup = "txt"
    <3>1. dns'.txt = Failed /\ dns'.dmarc = dns.dmarc /\ dns'.caa = dns.caa
      BY <1>1, <1>2, <2>3
    <3> QED BY <2>1, <2>2, <2>3, <3>1, NothingFailed, RulesOfLookups
  <2>4. CASE lookup = "dmarc"
    <3>1. dns'.txt = dns.txt /\ dns'.dmarc = Failed /\ dns'.caa = dns.caa
      BY <1>1, <1>2, <2>4
    <3> QED BY <2>1, <2>2, <2>4, <3>1, NothingFailed, RulesOfLookups
  <2>5. CASE lookup = "caa"
    <3>1. dns'.txt = dns.txt /\ dns'.dmarc = dns.dmarc /\ dns'.caa = Failed
      BY <1>1, <1>2, <2>5
    <3> QED BY <2>1, <2>2, <2>5, <3>1, NothingFailed, RulesOfLookups
  <2> QED BY <1>2, <2>3, <2>4, <2>5
<1> QED BY <1>3, <1>4

-----------------------------------------------------------------------------
(* What is said of headers. *)
LEMMA SayIs ==
  \A rule, severity : /\ Say(rule, severity).rule = rule
                      /\ Say(rule, severity).severity = severity
                      /\ Say(rule, severity).about = ""
BY DEF Say

LEMMA InHsts ==
  ASSUME NEW h, NEW config, NEW x
  PROVE  x \in HstsFindings(h, config) <=>
           \/ h.hsts = {} /\ x = Say("missing-hsts", "high")
           \/ \E parts \in h.hsts :
                \/ MaxAge(parts) < config.minMaxAge /\ x = Say("weak-hsts-max-age", "medium")
                \/ /\ config.includeSubdomains
                   /\ \A part \in ToSet(parts) : part.name # "includesubdomains"
                   /\ x = Say("hsts-no-subdomains", "low")
<1> DEFINE Of(parts) ==
      When(MaxAge(parts) < config.minMaxAge, "weak-hsts-max-age", "medium")
      \cup When(config.includeSubdomains /\
                  \A part \in ToSet(parts) : part.name # "includesubdomains",
                "hsts-no-subdomains", "low")
<1>1. HstsFindings(h, config) =
        When(h.hsts = {}, "missing-hsts", "high") \cup UNION {Of(parts) : parts \in h.hsts}
  BY DEF HstsFindings, Absent
<1>2. ASSUME NEW parts
      PROVE  x \in Of(parts) <=>
               \/ MaxAge(parts) < config.minMaxAge /\ x = Say("weak-hsts-max-age", "medium")
               \/ /\ config.includeSubdomains
                  /\ \A part \in ToSet(parts) : part.name # "includesubdomains"
                  /\ x = Say("hsts-no-subdomains", "low")
  BY DEF When, Finding, Say
<1>3. x \in When(h.hsts = {}, "missing-hsts", "high") <=>
        h.hsts = {} /\ x = Say("missing-hsts", "high")
  BY DEF When, Finding, Say
<1> HIDE DEF Of
<1> QED BY <1>1, <1>2, <1>3

Covered(h) == \E csp \in h.csp : "frame-ancestors" \in DOMAIN ParseCsp(csp)

LEMMA InClickjacking ==
  ASSUME NEW h, NEW x
  PROVE  x \in ClickjackingFindings(h) <=>
           \/ ~Covered(h) /\ h.xfo = {} /\ x = Say("missing-clickjacking-protection", "medium")
           \/ /\ ~Covered(h) /\ h.xfo # {} /\ h.xfo \cap ValidXfo = {}
              /\ x = Say("invalid-xfo", "low")
BY DEF ClickjackingFindings, Covered, Absent, When, Finding, Say

LEMMA InReferrer ==
  ASSUME NEW h, NEW config, NEW x
  PROVE  x \in ReferrerFindings(h, config) <=>
           \/ /\ "referrer-policy" \in config.required /\ h.referrer = {}
              /\ x = Say("missing-referrer-policy", "low")
           \/ h.referrer \cap WeakReferrer # {} /\ x = Say("weak-referrer-policy", "low")
BY DEF ReferrerFindings, Absent, When, Finding, Say

LEMMA InCsp ==
  ASSUME NEW h, NEW config, NEW x
  PROVE  x \in CspFindings(h, config) <=>
           \/ /\ h.csp = {} /\ "content-security-policy" \in config.required
              /\ x = Say("missing-csp", "medium")
           \/ \E csp \in h.csp : x \in CspQualityFindings(csp)
BY DEF CspFindings, Absent, When, Finding, Say

-----------------------------------------------------------------------------
(* What the remedies for a CSP make of it. *)
Effective(sources) == sources \ (Inline(sources) \cup Listed(sources))

LEMMA NothingWorse ==
  ASSUME NEW old, NEW new,
         "'unsafe-inline'" \in Effective(Scripts(new)) => "'unsafe-inline'" \in Effective(Scripts(old)),
         "'unsafe-eval'" \in Scripts(new) => "'unsafe-eval'" \in Scripts(old),
         TooBroad(Effective(Scripts(new))) => TooBroad(Effective(Scripts(old))),
         TooBroad(Objects(new)) => TooBroad(Objects(old)),
         "base-uri" \in DOMAIN ParseCsp(old) => "base-uri" \in DOMAIN ParseCsp(new)
  PROVE  CspQualityFindings(new) \subseteq CspQualityFindings(old)
<1>1. \A csp : EffectiveScriptSrc(ParseCsp(csp)) = Effective(Scripts(csp))
  BY DEF EffectiveScriptSrc, Effective, Scripts
<1> SUFFICES ASSUME NEW x \in CspQualityFindings(new) PROVE x \in CspQualityFindings(old)
  OBVIOUS
<1> QED BY <1>1, InQuality

LEMMA ScriptDirectiveIs ==
  ASSUME NEW csp
  PROVE  ScriptDirective(csp) = IF Get(csp, "script-src") # {} THEN "script-src" ELSE "default-src"
BY DEF ScriptDirective, Get

(* The directive that governs scripts is rewritten. *)
LEMMA Rewritten ==
  ASSUME NEW csp \in Csp, NEW to \in SUBSET Word
  PROVE  LET new == WithDirective(csp, ScriptDirective(csp), to)
         IN  /\ new \in Csp
             /\ Scripts(new) = NotEmpty(to)
             /\ \/ Objects(new) = Objects(csp)
                \/ Objects(csp) = Scripts(csp) /\ Objects(new) = NotEmpty(to)
             /\ "base-uri" \in DOMAIN ParseCsp(csp) => "base-uri" \in DOMAIN ParseCsp(new)
             /\ "frame-ancestors" \in DOMAIN ParseCsp(new) <=>
                  "frame-ancestors" \in DOMAIN ParseCsp(csp)
<1> DEFINE directive == ScriptDirective(csp)
           new == WithDirective(csp, directive, to)
<1>1. directive = IF Get(csp, "script-src") # {} THEN "script-src" ELSE "default-src"
  BY ScriptDirectiveIs
<1>2. directive \in Word
  BY <1>1 DEF Word
<1> HIDE DEF directive
<1>3. /\ new \in Csp
      /\ Get(new, directive) = NotEmpty(to)
      /\ \A other : other # directive => Get(new, other) = Get(csp, other)
      /\ \A other : other \in DOMAIN ParseCsp(new) <=>
                      other = directive \/ other \in DOMAIN ParseCsp(csp)
  BY <1>2, DirectiveSet
<1> HIDE DEF new
<1>4. \A c : /\ Scripts(c) = IF Get(c, "script-src") # {} THEN Get(c, "script-src")
                             ELSE Get(c, "default-src")
             /\ Objects(c) = IF Get(c, "object-src") # {} THEN Get(c, "object-src")
                             ELSE Get(c, "default-src")
  BY SourcesGot DEF Scripts, Objects
<1>5. NotEmpty(to) # {}
  BY DEF NotEmpty
<1>6. CASE directive = "script-src"
  <2>1. /\ Get(new, "script-src") = NotEmpty(to)
        /\ Get(new, "object-src") = Get(csp, "object-src")
        /\ Get(new, "default-src") = Get(csp, "default-src")
    BY <1>3, <1>6
  <2> QED BY <1>3, <1>4, <1>5, <1>6, <2>1 DEF new, directive
<1>7. CASE directive = "default-src"
  <2>1. /\ Get(new, "default-src") = NotEmpty(to)
        /\ Get(new, "object-src") = Get(csp, "object-src")
        /\ Get(new, "script-src") = Get(csp, "script-src") /\ Get(csp, "script-src") = {}
    BY <1>1, <1>3, <1>7
  <2>2. Scripts(new) = NotEmpty(to) /\ Scripts(csp) = Get(csp, "default-src")
    BY <1>4, <2>1
  <2>3. \/ Objects(new) = Objects(csp)
        \/ Objects(csp) = Scripts(csp) /\ Objects(new) = NotEmpty(to)
    BY <1>4, <2>1, <2>2
  <2> QED BY <1>3, <1>7, <2>2, <2>3 DEF new, directive
<1> QED BY <1>1, <1>6, <1>7

(* Sources that lose what is dangerous, or are given a nonce. *)
LEMMA Tightened ==
  ASSUME NEW sources \in SUBSET Word
  PROVE  /\ "'unsafe-inline'" \in Effective(sources) =>
              LET less == NotEmpty(sources \ {"'unsafe-inline'"})
                  more == NotEmpty(sources \cup {"'nonce-'"})
              IN  /\ "'unsafe-inline'" \notin Effective(less)
                  /\ "'unsafe-inline'" \notin Effective(more)
                  /\ "'unsafe-eval'" \in less \cup more => "'unsafe-eval'" \in sources
                  /\ TooBroad(Effective(less)) => TooBroad(Effective(sources))
                  /\ TooBroad(Effective(more)) => TooBroad(Effective(sources))
                  /\ TooBroad(less) => TooBroad(sources)
                  /\ TooBroad(more) => TooBroad(sources)
         /\ "'unsafe-eval'" \in sources =>
              LET less == NotEmpty(sources \ {"'unsafe-eval'"})
              IN  /\ "'unsafe-eval'" \notin less
                  /\ "'unsafe-inline'" \in Effective(less) => "'unsafe-inline'" \in Effective(sources)
                  /\ TooBroad(Effective(less)) => TooBroad(Effective(sources))
                  /\ TooBroad(less) => TooBroad(sources)
<1> USE DEF Effective, NotEmpty, TooBroad, Inline, Listed, HashOrNonce, BroadSources
<1>1. ASSUME "'unsafe-inline'" \in Effective(sources)
      PROVE  /\ sources \cap HashOrNonce = {} /\ Effective(sources) = sources
             /\ "'unsafe-inline'" \in sources
  BY <1>1
<1>2. ASSUME "'unsafe-inline'" \in Effective(sources)
      PROVE  LET less == NotEmpty(sources \ {"'unsafe-inline'"})
             IN  /\ "'unsafe-inline'" \notin Effective(less)
                 /\ "'unsafe-eval'" \in less => "'unsafe-eval'" \in sources
                 /\ TooBroad(Effective(less)) => TooBroad(Effective(sources))
                 /\ TooBroad(less) => TooBroad(sources)
  BY <1>1, <1>2
<1>3. ASSUME "'unsafe-inline'" \in Effective(sources)
      PROVE  LET more == NotEmpty(sources \cup {"'nonce-'"})
             IN  /\ "'unsafe-inline'" \notin Effective(more)
                 /\ "'unsafe-eval'" \in more => "'unsafe-eval'" \in sources
                 /\ TooBroad(Effective(more)) => TooBroad(Effective(sources))
                 /\ TooBroad(more) => TooBroad(sources)
  BY <1>1, <1>3
<1>4. ASSUME "'unsafe-eval'" \in sources
      PROVE  LET less == NotEmpty(sources \ {"'unsafe-eval'"})
             IN  /\ "'unsafe-eval'" \notin less
                 /\ "'unsafe-inline'" \in Effective(less) => "'unsafe-inline'" \in Effective(sources)
                 /\ TooBroad(Effective(less)) => TooBroad(Effective(sources))
                 /\ TooBroad(less) => TooBroad(sources)
  BY <1>4
<1> QED BY <1>2, <1>3, <1>4

(* A directive other than the one that governs scripts is set. *)
LEMMA OtherSet ==
  ASSUME NEW csp \in Csp, NEW name \in {"object-src", "base-uri", "frame-ancestors"},
         NEW sources \in SUBSET Word
  PROVE  LET new == WithDirective(csp, name, sources)
         IN  /\ new \in Csp
             /\ Scripts(new) = Scripts(csp)
             /\ Objects(new) = IF name = "object-src" THEN NotEmpty(sources) ELSE Objects(csp)
             /\ \A other : other \in DOMAIN ParseCsp(new) <=>
                             other = name \/ other \in DOMAIN ParseCsp(csp)
<1> DEFINE new == WithDirective(csp, name, sources)
<1>1. /\ new \in Csp
      /\ Get(new, name) = NotEmpty(sources)
      /\ \A other : other # name => Get(new, other) = Get(csp, other)
      /\ \A other : other \in DOMAIN ParseCsp(new) <=>
                      other = name \/ other \in DOMAIN ParseCsp(csp)
  <2>1. name \in Word
    BY DEF Word
  <2> QED BY <2>1, DirectiveSet
<1> HIDE DEF new
<1>2. \A c : /\ Scripts(c) = IF Get(c, "script-src") # {} THEN Get(c, "script-src")
                             ELSE Get(c, "default-src")
             /\ Objects(c) = IF Get(c, "object-src") # {} THEN Get(c, "object-src")
                             ELSE Get(c, "default-src")
  BY SourcesGot DEF Scripts, Objects
<1>3. /\ Get(new, "script-src") = Get(csp, "script-src")
      /\ Get(new, "default-src") = Get(csp, "default-src")
  BY <1>1
<1>4. Scripts(new) = Scripts(csp)
  BY <1>2, <1>3
<1>5. Objects(new) = IF name = "object-src" THEN NotEmpty(sources) ELSE Objects(csp)
  <2>1. NotEmpty(sources) # {}
    BY DEF NotEmpty
  <2> QED BY <1>1, <1>2, <1>3, <2>1
<1> QED BY <1>1, <1>4, <1>5 DEF new

(* script-src is set. *)
LEMMA ScriptsSet ==
  ASSUME NEW csp \in Csp, NEW sources \in SUBSET Word
  PROVE  LET new == WithDirective(csp, "script-src", sources)
         IN  /\ new \in Csp
             /\ Scripts(new) = NotEmpty(sources)
             /\ Objects(new) = Objects(csp)
             /\ \A other : other \in DOMAIN ParseCsp(new) <=>
                             other = "script-src" \/ other \in DOMAIN ParseCsp(csp)
<1> DEFINE new == WithDirective(csp, "script-src", sources)
<1>1. /\ new \in Csp
      /\ Get(new, "script-src") = NotEmpty(sources)
      /\ \A other : other # "script-src" => Get(new, other) = Get(csp, other)
      /\ \A other : other \in DOMAIN ParseCsp(new) <=>
                      other = "script-src" \/ other \in DOMAIN ParseCsp(csp)
  <2>1. "script-src" \in Word
    BY DEF Word
  <2> QED BY <2>1, DirectiveSet
<1> HIDE DEF new
<1>2. \A c : /\ Scripts(c) = IF Get(c, "script-src") # {} THEN Get(c, "script-src")
                             ELSE Get(c, "default-src")
             /\ Objects(c) = IF Get(c, "object-src") # {} THEN Get(c, "object-src")
                             ELSE Get(c, "default-src")
  BY SourcesGot DEF Scripts, Objects
<1>3. /\ Get(new, "object-src") = Get(csp, "object-src")
      /\ Get(new, "default-src") = Get(csp, "default-src")
  BY <1>1
<1>4. NotEmpty(sources) # {}
  BY DEF NotEmpty
<1>5. Scripts(new) = NotEmpty(sources) /\ Objects(new) = Objects(csp)
  BY <1>1, <1>2, <1>3, <1>4
<1> QED BY <1>1, <1>5 DEF new

LEMMA ScriptsAreSources == \A csp \in Csp : Scripts(csp) \in SUBSET Word
BY GetIsSet, SourcesGot DEF Scripts

(* Whoever does what is said of a CSP is rid of it, and brings nothing new. *)
LEMMA CspRemedyPays ==
  ASSUME NEW csp \in Csp, NEW f \in CspQualityFindings(csp), NEW new \in CspRemedies(f.rule, csp)
  PROVE  /\ new \in Csp
         /\ f \notin CspQualityFindings(new)
         /\ CspQualityFindings(new) \subseteq CspQualityFindings(csp)
         /\ "frame-ancestors" \in DOMAIN ParseCsp(new) <=>
              "frame-ancestors" \in DOMAIN ParseCsp(csp)
<1> DEFINE sources == Scripts(csp)
           Rewrite(to) == WithDirective(csp, ScriptDirective(csp), to)
<1>1. sources \in SUBSET Word
  BY ScriptsAreSources
<1>2. \A c : EffectiveScriptSrc(ParseCsp(c)) = Effective(Scripts(c))
  BY DEF EffectiveScriptSrc, Effective, Scripts
<1>3. ASSUME NEW c, NEW x
      PROVE  x \in CspQualityFindings(c) <=>
               \/ x = Say("csp-unsafe-inline", "medium")
                  /\ "'unsafe-inline'" \in Effective(Scripts(c))
               \/ x = Say("csp-unsafe-eval", "medium") /\ "'unsafe-eval'" \in Scripts(c)
               \/ x = Say("csp-broad-script-src", "medium") /\ TooBroad(Effective(Scripts(c)))
               \/ x = Say("csp-broad-object-src", "low") /\ TooBroad(Objects(c))
               \/ x = Say("csp-missing-base-uri", "low") /\ "base-uri" \notin DOMAIN ParseCsp(c)
  BY <1>2, InQuality
<1>4. /\ {"'none'", "'self'", "host", "'nonce-'", "'strict-dynamic'"} \subseteq Word
  BY DEF Word
<1> HIDE DEF sources
<1>11. /\ Say("csp-unsafe-inline", "medium").rule = "csp-unsafe-inline"
       /\ Say("csp-unsafe-eval", "medium").rule = "csp-unsafe-eval"
       /\ Say("csp-broad-script-src", "medium").rule = "csp-broad-script-src"
       /\ Say("csp-broad-object-src", "low").rule = "csp-broad-object-src"
       /\ Say("csp-missing-base-uri", "low").rule = "csp-missing-base-uri"
  BY DEF Say
<1>5. CASE f = Say("csp-unsafe-inline", "medium") /\ "'unsafe-inline'" \in Effective(sources)
  <2>1. \/ new = Rewrite(sources \ {"'unsafe-inline'"})
        \/ new = Rewrite(sources \cup {"'nonce-'"})
    BY <1>5, SayIs DEF CspRemedies, sources, Scripts
  <2>2. PICK to \in {sources \ {"'unsafe-inline'"}, sources \cup {"'nonce-'"}} : new = Rewrite(to)
    BY <2>1
  <2>3. to \in SUBSET Word
    BY <1>1, <1>4
  <2>4. /\ new \in Csp
        /\ Scripts(new) = NotEmpty(to)
        /\ \/ Objects(new) = Objects(csp)
           \/ Objects(csp) = sources /\ Objects(new) = NotEmpty(to)
        /\ "base-uri" \in DOMAIN ParseCsp(csp) => "base-uri" \in DOMAIN ParseCsp(new)
        /\ "frame-ancestors" \in DOMAIN ParseCsp(new) <=>
             "frame-ancestors" \in DOMAIN ParseCsp(csp)
    BY <2>2, <2>3, Rewritten DEF sources
  <2>5. /\ "'unsafe-inline'" \notin Effective(NotEmpty(to))
        /\ "'unsafe-eval'" \in NotEmpty(to) => "'unsafe-eval'" \in sources
        /\ TooBroad(Effective(NotEmpty(to))) => TooBroad(Effective(sources))
        /\ TooBroad(NotEmpty(to)) => TooBroad(sources)
    BY <1>1, <1>5, <2>2, Tightened
  <2>6. CspQualityFindings(new) \subseteq CspQualityFindings(csp)
    BY <2>4, <2>5, NothingWorse DEF sources
  <2>7. f \notin CspQualityFindings(new)
    BY <1>3, <1>5, <2>4, <2>5, <1>11
  <2> QED BY <2>4, <2>6, <2>7
<1>6. CASE f = Say("csp-unsafe-eval", "medium") /\ "'unsafe-eval'" \in sources
  <2> DEFINE to == sources \ {"'unsafe-eval'"}
  <2>1. new = Rewrite(to)
    BY <1>6, SayIs DEF CspRemedies, sources, Scripts
  <2>2. to \in SUBSET Word
    BY <1>1
  <2>4. /\ new \in Csp
        /\ Scripts(new) = NotEmpty(to)
        /\ \/ Objects(new) = Objects(csp)
           \/ Objects(csp) = sources /\ Objects(new) = NotEmpty(to)
        /\ "base-uri" \in DOMAIN ParseCsp(csp) => "base-uri" \in DOMAIN ParseCsp(new)
        /\ "frame-ancestors" \in DOMAIN ParseCsp(new) <=>
             "frame-ancestors" \in DOMAIN ParseCsp(csp)
    BY <2>1, <2>2, Rewritten DEF sources
  <2>5. /\ "'unsafe-eval'" \notin NotEmpty(to)
        /\ "'unsafe-inline'" \in Effective(NotEmpty(to)) => "'unsafe-inline'" \in Effective(sources)
        /\ TooBroad(Effective(NotEmpty(to))) => TooBroad(Effective(sources))
        /\ TooBroad(NotEmpty(to)) => TooBroad(sources)
    BY <1>1, <1>6, Tightened
  <2> HIDE DEF to
  <2>6. CspQualityFindings(new) \subseteq CspQualityFindings(csp)
    BY <2>4, <2>5, NothingWorse DEF sources
  <2>7. f \notin CspQualityFindings(new)
    BY <1>3, <1>6, <2>4, <2>5, <1>11
  <2> QED BY <2>4, <2>6, <2>7
<1>7. CASE f = Say("csp-broad-script-src", "medium") /\ TooBroad(Effective(sources))
  <2>1. PICK to \in {{"'self'", "host"}, sources \cup {"'nonce-'", "'strict-dynamic'"}} :
          new = WithDirective(csp, "script-src", to)
    BY <1>7, SayIs DEF CspRemedies, sources, Scripts
  <2>2. to \in SUBSET Word
    BY <1>1, <1>4
  <2>3. /\ new \in Csp
        /\ Scripts(new) = NotEmpty(to) /\ Objects(new) = Objects(csp)
        /\ \A other : other \in DOMAIN ParseCsp(new) <=>
                        other = "script-src" \/ other \in DOMAIN ParseCsp(csp)
    BY <2>1, <2>2, ScriptsSet
  <2>4. /\ "'unsafe-inline'" \notin Effective(NotEmpty(to))
        /\ "'unsafe-eval'" \in NotEmpty(to) => "'unsafe-eval'" \in sources
        /\ ~TooBroad(Effective(NotEmpty(to)))
    BY <2>1 DEF Effective, NotEmpty, TooBroad, Inline, Listed, HashOrNonce, BroadSources
  <2>5. CspQualityFindings(new) \subseteq CspQualityFindings(csp)
    BY <2>3, <2>4, NothingWorse DEF sources
  <2>6. f \notin CspQualityFindings(new)
    BY <1>3, <1>7, <2>3, <2>4, <1>11
  <2>7. "frame-ancestors" \in DOMAIN ParseCsp(new) <=> "frame-ancestors" \in DOMAIN ParseCsp(csp)
    BY <2>3
  <2> QED BY <2>3, <2>5, <2>6, <2>7
<1>8. CASE f = Say("csp-broad-object-src", "low") /\ TooBroad(Objects(csp))
  <2>1. new = WithDirective(csp, "object-src", {"'none'"})
    BY <1>8, SayIs DEF CspRemedies
  <2>2. /\ new \in Csp
        /\ Scripts(new) = sources /\ Objects(new) = NotEmpty({"'none'"})
        /\ \A other : other \in DOMAIN ParseCsp(new) <=>
                        other = "object-src" \/ other \in DOMAIN ParseCsp(csp)
    BY <1>4, <2>1, OtherSet DEF sources
  <2>3. ~TooBroad(Objects(new))
    BY <2>2 DEF NotEmpty, TooBroad, BroadSources
  <2>4. CspQualityFindings(new) \subseteq CspQualityFindings(csp)
    BY <2>2, <2>3, NothingWorse DEF sources
  <2>5. f \notin CspQualityFindings(new)
    BY <1>3, <1>8, <2>3, <1>11
  <2>6. "frame-ancestors" \in DOMAIN ParseCsp(new) <=> "frame-ancestors" \in DOMAIN ParseCsp(csp)
    BY <2>2
  <2> QED BY <2>2, <2>4, <2>5, <2>6
<1>9. CASE f = Say("csp-missing-base-uri", "low") /\ "base-uri" \notin DOMAIN ParseCsp(csp)
  <2>1. new = WithDirective(csp, "base-uri", {"'self'"})
    BY <1>9, SayIs DEF CspRemedies
  <2>2. /\ new \in Csp
        /\ Scripts(new) = sources /\ Objects(new) = Objects(csp)
        /\ \A other : other \in DOMAIN ParseCsp(new) <=>
                        other = "base-uri" \/ other \in DOMAIN ParseCsp(csp)
    BY <1>4, <2>1, OtherSet DEF sources
  <2>4. CspQualityFindings(new) \subseteq CspQualityFindings(csp)
    BY <2>2, NothingWorse DEF sources
  <2>5. f \notin CspQualityFindings(new)
    BY <1>3, <1>9, <2>2, <1>11
  <2>6. "frame-ancestors" \in DOMAIN ParseCsp(new) <=> "frame-ancestors" \in DOMAIN ParseCsp(csp)
    BY <2>2
  <2> QED BY <2>2, <2>4, <2>5, <2>6
<1>10. \/ f = Say("csp-unsafe-inline", "medium") /\ "'unsafe-inline'" \in Effective(sources)
       \/ f = Say("csp-unsafe-eval", "medium") /\ "'unsafe-eval'" \in sources
       \/ f = Say("csp-broad-script-src", "medium") /\ TooBroad(Effective(sources))
       \/ f = Say("csp-broad-object-src", "low") /\ TooBroad(Objects(csp))
       \/ f = Say("csp-missing-base-uri", "low") /\ "base-uri" \notin DOMAIN ParseCsp(csp)
  BY <1>3 DEF sources
<1> QED BY <1>5, <1>6, <1>7, <1>8, <1>9, <1>10

-----------------------------------------------------------------------------
(* Strict-Transport-Security: the last age counts. *)
LEMMA LastAgeIs ==
  ASSUME NEW parts \in Hsts
  PROVE  LET at == LastAge(parts)
         IN  /\ at = 0 => \A i \in DOMAIN parts : parts[i].name # "max-age"
             /\ at # 0 => /\ at \in DOMAIN parts /\ parts[at].name = "max-age"
                          /\ \A j \in DOMAIN parts : at < j => parts[j].name # "max-age"
<1> DEFINE I == {i \in 1..Len(parts) : parts[i].name = "max-age"}
<1>1. DOMAIN parts = 1..Len(parts) /\ Len(parts) \in Nat
  BY LenProperties DEF Hsts
<1>2. LastAge(parts) = IF I # {} THEN Max(I) ELSE 0
  BY DEF LastAge, SelectLastInSeq
<1>3. I \in SUBSET (1..Len(parts))
  BY <1>1
<1>4. I # {} => Max(I) \in I /\ \A k \in I : Max(I) >= k
  BY <1>1, <1>3, Greatest
<1>5. CASE I = {}
  BY <1>1, <1>2, <1>5
<1>6. CASE I # {}
  <2>1. LastAge(parts) = Max(I)
    BY <1>2, <1>6
  <2>2. Max(I) \in 1..Len(parts) /\ parts[Max(I)].name = "max-age" /\ Max(I) # 0
    BY <1>4, <1>6
  <2>3. \A j \in 1..Len(parts) : Max(I) < j => parts[j].name # "max-age"
    BY <1>1, <1>4, <1>6, <2>2
  <2> QED BY <1>1, <2>1, <2>2, <2>3
<1> QED BY <1>5, <1>6

LEMMA LastAgeUnique ==
  ASSUME NEW parts \in Hsts, NEW i \in DOMAIN parts, parts[i].name = "max-age",
         \A j \in DOMAIN parts : i < j => parts[j].name # "max-age"
  PROVE  LastAge(parts) = i
<1>1. DOMAIN parts \subseteq Nat
  BY LenProperties DEF Hsts
<1> DEFINE at == LastAge(parts)
<1>2. /\ at # 0
      /\ at \in DOMAIN parts /\ parts[at].name = "max-age"
      /\ \A j \in DOMAIN parts : at < j => parts[j].name # "max-age"
  BY LastAgeIs
<1> HIDE DEF at
<1>3. ~(at < i) /\ ~(i < at) /\ at \in Nat /\ i \in Nat
  BY <1>1, <1>2
<1> QED BY <1>3 DEF at

NoSubdomains(parts) == \A part \in ToSet(parts) : part.name # "includesubdomains"

LEMMA AgeSet ==
  ASSUME NEW parts \in Hsts, NEW n \in Int
  PROVE  LET new == WithAge(parts, [name |-> "max-age", value |-> {n}])
         IN  new \in Hsts /\ MaxAge(new) = n /\ (NoSubdomains(new) <=> NoSubdomains(parts))
<1> DEFINE age == [name |-> "max-age", value |-> {n}]
           new == WithAge(parts, age)
           at == LastAge(parts)
           Part == [name : Word \ {"max-age"}] \cup [name : {"max-age"}, value : SUBSET Int]
<1>1. new = IF at = 0 THEN Append(parts, age) ELSE [parts EXCEPT ![at] = age]
  BY DEF WithAge
<1>2. age \in Part /\ age.name = "max-age" /\ age.value = {n}
  OBVIOUS
<1>3. DOMAIN parts = 1..Len(parts) /\ Len(parts) \in Nat /\ parts \in Seq(Part)
  BY LenProperties DEF Hsts
<1>4. /\ at = 0 => \A i \in DOMAIN parts : parts[i].name # "max-age"
      /\ at # 0 => /\ at \in DOMAIN parts /\ parts[at].name = "max-age"
                   /\ \A j \in DOMAIN parts : at < j => parts[j].name # "max-age"
  BY LastAgeIs
<1> DEFINE put == IF at = 0 THEN Len(parts) + 1 ELSE at
<1> HIDE DEF new, at, age, Part
<1>5. /\ new \in Seq(Part) /\ put \in DOMAIN new /\ new[put] = age
      /\ DOMAIN parts \subseteq DOMAIN new /\ put # 0
      /\ \A i \in DOMAIN new : i # put => i \in DOMAIN parts /\ new[i] = parts[i]
      /\ \A i \in DOMAIN parts : i = put => parts[i].name = "max-age"
      /\ \A j \in DOMAIN new : put < j => new[j].name # "max-age"
  <2>1. CASE at = 0
    <3>1. new = Append(parts, age) /\ put = Len(parts) + 1
      BY <1>1, <2>1
    <3>2. /\ new \in Seq(Part) /\ Len(new) = Len(parts) + 1 /\ new[Len(parts) + 1] = age
          /\ \A i \in 1..Len(parts) : new[i] = parts[i]
      BY <1>2, <1>3, <3>1, AppendProperties
    <3>3. DOMAIN new = 1..(Len(parts) + 1)
      BY <3>2, LenProperties
    <3>4. put \notin DOMAIN parts
      BY <1>3, <3>1
    <3>5. \A i \in DOMAIN new : i # put => i \in DOMAIN parts
      BY <1>3, <3>1, <3>3
    <3>6. \A j \in DOMAIN new : ~(put < j)
      BY <1>3, <3>1, <3>3
    <3>7. put \in DOMAIN new /\ put # 0 /\ DOMAIN parts \subseteq DOMAIN new
      BY <1>3, <3>1, <3>3
    <3> HIDE DEF put
    <3> QED BY <1>3, <3>1, <3>2, <3>4, <3>5, <3>6, <3>7
  <2>2. CASE at # 0
    <3>1. new = [parts EXCEPT ![at] = age] /\ put = at
      BY <1>1, <2>2
    <3>2. at \in 1..Len(parts)
      BY <1>3, <1>4, <2>2
    <3>3. new \in Seq(Part) /\ Len(new) = Len(parts)
      BY <1>2, <1>3, <3>1, <3>2, ExceptSeq
    <3>4. DOMAIN new = DOMAIN parts
      BY <3>1
    <3>5. \A i \in DOMAIN parts : new[i] = IF i = at THEN age ELSE parts[i]
      BY <3>1
    <3>6. \A j \in DOMAIN new : put < j => new[j].name # "max-age"
      BY <1>3, <1>4, <2>2, <3>1, <3>2, <3>4, <3>5
    <3> HIDE DEF put
    <3> QED BY <1>3, <1>4, <2>2, <3>1, <3>2, <3>3, <3>4, <3>5, <3>6
  <2> QED BY <2>1, <2>2
<1> HIDE DEF put
<1>6. new \in Hsts
  BY <1>5 DEF Hsts, Part
<1>7. LastAge(new) = put
  BY <1>2, <1>5, <1>6, LastAgeUnique
<1>8. MaxAge(new) = n
  BY <1>2, <1>5, <1>7 DEF MaxAge
<1>9. NoSubdomains(new) <=> NoSubdomains(parts)
  BY <1>2, <1>5 DEF NoSubdomains, ToSet
<1> QED BY <1>6, <1>8, <1>9 DEF new, age

LEMMA SubdomainsAppended ==
  ASSUME NEW parts \in Hsts
  PROVE  LET new == Append(parts, [name |-> "includesubdomains"])
         IN  new \in Hsts /\ MaxAge(new) = MaxAge(parts) /\ ~NoSubdomains(new)
<1> DEFINE word == [name |-> "includesubdomains"]
           new == Append(parts, word)
           at == LastAge(parts)
           Part == [name : Word \ {"max-age"}] \cup [name : {"max-age"}, value : SUBSET Int]
<1>1. word \in Part /\ word.name = "includesubdomains"
  BY DEF Word
<1>2. DOMAIN parts = 1..Len(parts) /\ Len(parts) \in Nat /\ parts \in Seq(Part)
  BY LenProperties DEF Hsts
<1> HIDE DEF word, Part
<1>3. /\ new \in Seq(Part) /\ Len(new) = Len(parts) + 1 /\ new[Len(parts) + 1] = word
      /\ \A i \in 1..Len(parts) : new[i] = parts[i]
  BY <1>1, <1>2, AppendProperties
<1> HIDE DEF new
<1>4. DOMAIN new = 1..(Len(parts) + 1)
  BY <1>3, LenProperties
<1>5. new \in Hsts
  BY <1>3 DEF Hsts, Part
<1>6. ~NoSubdomains(new)
  BY <1>1, <1>2, <1>3, <1>4 DEF NoSubdomains, ToSet
<1>7. /\ at = 0 => \A i \in DOMAIN parts : parts[i].name # "max-age"
      /\ at # 0 => /\ at \in DOMAIN parts /\ parts[at].name = "max-age"
                   /\ \A j \in DOMAIN parts : at < j => parts[j].name # "max-age"
  BY LastAgeIs
<1> HIDE DEF at
<1>8. \A i \in DOMAIN new :
        \/ i \in DOMAIN parts /\ new[i] = parts[i]
        \/ new[i].name = "includesubdomains"
  BY <1>1, <1>2, <1>3, <1>4
<1>9. CASE at = 0
  <2>1. \A i \in DOMAIN new : new[i].name # "max-age"
    BY <1>7, <1>8, <1>9
  <2>2. LastAge(new) = 0
    BY <1>5, <2>1, LastAgeIs
  <2> QED BY <1>5, <1>6, <1>9, <2>2 DEF MaxAge, at, new, word
<1>10. CASE at # 0
  <2>1. at \in DOMAIN new /\ new[at] = parts[at]
    BY <1>2, <1>3, <1>4, <1>7, <1>10
  <2>2. \A j \in DOMAIN new : at < j => new[j].name # "max-age"
    BY <1>7, <1>8, <1>10
  <2>3. LastAge(new) = at
    BY <1>5, <1>7, <1>10, <2>1, <2>2, LastAgeUnique
  <2> DEFINE AgeOf(part) == IF part.value = {} THEN 0 ELSE CHOOSE age \in part.value : TRUE
  <2>4. MaxAge(new) = AgeOf(new[at])
    BY <1>10, <2>3 DEF MaxAge
  <2>5. MaxAge(parts) = AgeOf(parts[at])
    BY <1>10 DEF MaxAge, at
  <2> HIDE DEF AgeOf
  <2>6. MaxAge(new) = MaxAge(parts)
    BY <2>1, <2>4, <2>5
  <2> QED BY <1>5, <1>6, <2>6 DEF new, word
<1> QED BY <1>9, <1>10

-----------------------------------------------------------------------------
(* Doing what `f` says pays: it is gone, and at most one finding comes, of   *)
(* no greater cost.                                                          *)
Trades(old, new, f) ==
  /\ f \notin new
  /\ \/ new \subseteq old
     \/ \E g : new \subseteq old \cup {g} /\ Penalty[g.severity] <= Penalty[f.severity]

LEMMA TradesIn ==
  ASSUME NEW old, NEW new, NEW rest, NEW f, Trades(old, new, f), f \notin rest
  PROVE  Trades(old \cup rest, new \cup rest, f)
BY DEF Trades

PermissionsFindings(h, config) ==
  When("permissions-policy" \in config.required /\ Absent(h.permissions),
       "missing-permissions-policy", "low")
CoopFindings(h) == When(Absent(h.coop), "missing-coop", "info")
XctoFindings(h) ==
  When(Absent(h.xcto), "missing-xcto", "low")
  \cup When(~Absent(h.xcto) /\ "nosniff" \notin h.xcto, "bad-xcto", "low")
LeakedFindings(h, config) ==
  {Finding("leaked", "info", banned) : banned \in h.disclosing \cap config.banned}

LEMMA HeaderParts ==
  ASSUME NEW h, NEW config
  PROVE  HeaderFindings(h, config) =
           HstsFindings(h, config) \cup ReferrerFindings(h, config)
           \cup PermissionsFindings(h, config) \cup CspFindings(h, config)
           \cup ClickjackingFindings(h) \cup CoopFindings(h) \cup XctoFindings(h)
           \cup LeakedFindings(h, config)
BY Zenon DEF HeaderFindings, PermissionsFindings, CoopFindings, XctoFindings, LeakedFindings

HstsRules == {"missing-hsts", "weak-hsts-max-age", "hsts-no-subdomains"}
ReferrerRules == {"missing-referrer-policy", "weak-referrer-policy"}
QualityRules ==
  {"csp-unsafe-inline", "csp-unsafe-eval", "csp-broad-script-src", "csp-broad-object-src",
   "csp-missing-base-uri"}
CspRules == {"missing-csp"} \cup QualityRules
ClickjackingRules == {"missing-clickjacking-protection", "invalid-xfo"}
OtherHeaderRules ==
  {"missing-permissions-policy", "missing-coop", "missing-xcto", "bad-xcto", "leaked"}
HeaderRules == HstsRules \cup ReferrerRules \cup CspRules \cup ClickjackingRules \cup OtherHeaderRules

LEMMA QualityRulesAre ==
  ASSUME NEW csp, NEW x \in CspQualityFindings(csp) PROVE x.rule \in QualityRules
<1>1. /\ Say("csp-unsafe-inline", "medium").rule = "csp-unsafe-inline"
      /\ Say("csp-unsafe-eval", "medium").rule = "csp-unsafe-eval"
      /\ Say("csp-broad-script-src", "medium").rule = "csp-broad-script-src"
      /\ Say("csp-broad-object-src", "low").rule = "csp-broad-object-src"
      /\ Say("csp-missing-base-uri", "low").rule = "csp-missing-base-uri"
  BY DEF Say
<1> QED BY <1>1, InQuality DEF QualityRules

LEMMA WhenSays ==
  ASSUME NEW condition, NEW rule, NEW severity, NEW x \in When(condition, rule, severity)
  PROVE  x = Say(rule, severity)
BY DEF When, Finding, Say

(* The rules by name. *)
LEMMA HeaderNames ==
  /\ Say("missing-hsts", "high").rule = "missing-hsts"
  /\ Say("weak-hsts-max-age", "medium").rule = "weak-hsts-max-age"
  /\ Say("hsts-no-subdomains", "low").rule = "hsts-no-subdomains"
  /\ Say("missing-referrer-policy", "low").rule = "missing-referrer-policy"
  /\ Say("weak-referrer-policy", "low").rule = "weak-referrer-policy"
  /\ Say("missing-permissions-policy", "low").rule = "missing-permissions-policy"
  /\ Say("missing-csp", "medium").rule = "missing-csp"
  /\ Say("missing-clickjacking-protection", "medium").rule = "missing-clickjacking-protection"
  /\ Say("invalid-xfo", "low").rule = "invalid-xfo"
  /\ Say("missing-coop", "info").rule = "missing-coop"
  /\ Say("missing-xcto", "low").rule = "missing-xcto"
  /\ Say("bad-xcto", "low").rule = "bad-xcto"
BY DEF Say

(* Each part of check_headers has rules of its own. *)
LEMMA HeaderRulesAre ==
  ASSUME NEW h, NEW config, NEW x
  PROVE  /\ x \in HstsFindings(h, config) => x.rule \in HstsRules
         /\ x \in ReferrerFindings(h, config) => x.rule \in ReferrerRules
         /\ x \in PermissionsFindings(h, config) => x.rule = "missing-permissions-policy"
         /\ x \in CspFindings(h, config) => x.rule \in CspRules
         /\ x \in ClickjackingFindings(h) => x.rule \in ClickjackingRules
         /\ x \in CoopFindings(h) => x.rule = "missing-coop"
         /\ x \in XctoFindings(h) => x.rule \in {"missing-xcto", "bad-xcto"}
         /\ x \in LeakedFindings(h, config) => x.rule = "leaked"
         /\ x \in HeaderFindings(h, config) => x.rule \in HeaderRules
<1>1. x \in HstsFindings(h, config) => x.rule \in HstsRules
  BY InHsts, HeaderNames DEF HstsRules
<1>2. x \in ReferrerFindings(h, config) => x.rule \in ReferrerRules
  BY InReferrer, HeaderNames DEF ReferrerRules
<1>3. x \in PermissionsFindings(h, config) => x.rule = "missing-permissions-policy"
  BY WhenSays, HeaderNames DEF PermissionsFindings
<1>4. x \in CspFindings(h, config) => x.rule \in CspRules
  BY InCsp, QualityRulesAre, HeaderNames DEF CspRules
<1>5. x \in ClickjackingFindings(h) => x.rule \in ClickjackingRules
  BY InClickjacking, HeaderNames DEF ClickjackingRules
<1>6. x \in CoopFindings(h) => x.rule = "missing-coop"
  BY WhenSays, HeaderNames DEF CoopFindings
<1>7. x \in XctoFindings(h) => x.rule \in {"missing-xcto", "bad-xcto"}
  BY WhenSays, HeaderNames DEF XctoFindings
<1>8. x \in LeakedFindings(h, config) => x.rule = "leaked"
  BY DEF LeakedFindings, Finding
<1>9. x \in HeaderFindings(h, config) => x.rule \in HeaderRules
  BY <1>1, <1>2, <1>3, <1>4, <1>5, <1>6, <1>7, <1>8, HeaderParts
     DEF HeaderRules, OtherHeaderRules
<1> QED BY <1>1, <1>2, <1>3, <1>4, <1>5, <1>6, <1>7, <1>8, <1>9

(* Headers, one at a time. *)
LEMMA OneValue == ASSUME NEW V, NEW v \in V PROVE {v} \in Header(V)
BY DEF Header

LEMMA HeadersAre ==
  ASSUME NEW h \in Headers
  PROVE  /\ h.csp \subseteq Csp /\ (\A v, w \in h.csp : v = w)
         /\ h.hsts \subseteq Hsts /\ (\A v, w \in h.hsts : v = w)
BY DEF Headers, Header

LEMMA TradesNames ==
  /\ Penalty["info"] = 0 /\ Penalty["low"] = 5 /\ Penalty["medium"] = 15 /\ Penalty["high"] = 40
BY DEF Penalty

LEMMA HstsPays ==
  ASSUME NEW h \in Headers, NEW config \in Policy, NEW f \in HstsFindings(h, config),
         NEW k \in HeaderRemedies(f, h, config)
  PROVE  k \in Headers /\ Trades(HeaderFindings(h, config), HeaderFindings(k, config), f)
<1> DEFINE age == [name |-> "max-age", value |-> {config.minMaxAge}]
           weak == Say("weak-hsts-max-age", "medium")
           open == Say("hsts-no-subdomains", "low")
<1>1. config.minMaxAge \in Int /\ config.includeSubdomains \in BOOLEAN
  BY DEF Policy
<1>2. h.hsts \subseteq Hsts /\ (\A v, w \in h.hsts : v = w)
  BY HeadersAre
<1>3. ASSUME NEW new \in Hsts, k = [h EXCEPT !.hsts = {new}],
             Trades(HstsFindings(h, config), HstsFindings(k, config), f)
      PROVE  k \in Headers /\ Trades(HeaderFindings(h, config), HeaderFindings(k, config), f)
  <2>1. k \in Headers
    BY <1>3, OneValue DEF Headers
  <2>2. /\ k.csp = h.csp /\ k.xfo = h.xfo /\ k.referrer = h.referrer
        /\ k.permissions = h.permissions /\ k.coop = h.coop /\ k.xcto = h.xcto
        /\ k.disclosing = h.disclosing
    BY <1>3 DEF Headers
  <2> DEFINE Rest(l) == ReferrerFindings(l, config)
        \cup PermissionsFindings(l, config) \cup CspFindings(l, config)
        \cup ClickjackingFindings(l) \cup CoopFindings(l) \cup XctoFindings(l)
        \cup LeakedFindings(l, config)
  <2>3. Rest(h) = Rest(k)
    BY <2>2 DEF ReferrerFindings, PermissionsFindings, CspFindings, ClickjackingFindings,
                CoopFindings, XctoFindings, LeakedFindings
  <2>4. f \notin Rest(h)
    BY HeaderRulesAre DEF HstsRules, ReferrerRules, CspRules, QualityRules, ClickjackingRules
  <2>5. \A l : HeaderFindings(l, config) = HstsFindings(l, config) \cup Rest(l)
    BY HeaderParts
  <2> HIDE DEF Rest
  <2> QED BY <1>3, <2>1, <2>3, <2>4, <2>5, TradesIn
<1>4. ASSUME NEW new \in Hsts, k = [h EXCEPT !.hsts = {new}], NEW x
      PROVE  x \in HstsFindings(k, config) <=>
               \/ MaxAge(new) < config.minMaxAge /\ x = weak
               \/ config.includeSubdomains /\ NoSubdomains(new) /\ x = open
  <2>1. k.hsts = {new}
    BY <1>4 DEF Headers
  <2> QED BY <2>1, InHsts DEF NoSubdomains
<1>5. CASE h.hsts = {} /\ f = Say("missing-hsts", "high")
  <2>1. k = [h EXCEPT !.hsts = {<<age>>}]
    BY <1>5, HeaderNames DEF HeaderRemedies
  <2>2. <<age>> \in Hsts /\ DOMAIN <<age>> = 1..1 /\ <<age>>[1] = age
    BY <1>1 DEF Hsts
  <2>3. LastAge(<<age>>) = 1
    BY <2>2, LastAgeUnique
  <2>4. MaxAge(<<age>>) = config.minMaxAge
    <3> DEFINE parts == <<age>>
    <3>1. LastAge(parts) = 1 /\ parts[1].value = {config.minMaxAge}
      BY <2>2, <2>3
    <3> HIDE DEF parts
    <3>2. MaxAge(parts) = CHOOSE v \in {config.minMaxAge} : TRUE
      BY <3>1 DEF MaxAge
    <3> QED BY <3>2 DEF parts
  <2>7. PICK new \in Hsts : k = [h EXCEPT !.hsts = {new}] /\ MaxAge(new) = config.minMaxAge
    BY <2>1, <2>2, <2>4
  <2>8. ~(MaxAge(new) < config.minMaxAge)
    BY <1>1, <2>7
  <2>5. \A x \in HstsFindings(k, config) : x = open
    BY <1>4, <2>7, <2>8
  <2>6. Trades(HstsFindings(h, config), HstsFindings(k, config), f)
    <3>1. f.severity = "high" /\ open.severity = "low" /\ f.rule # open.rule
      BY <1>5 DEF Say
    <3>2. Penalty[open.severity] <= Penalty[f.severity]
      BY <3>1, TradesNames
    <3>3. HstsFindings(k, config) \subseteq HstsFindings(h, config) \cup {open}
      BY <2>5
    <3> QED BY <2>5, <3>1, <3>2, <3>3 DEF Trades
  <2> QED BY <1>3, <2>1, <2>2, <2>6
<1>6. ASSUME NEW parts \in h.hsts, MaxAge(parts) < config.minMaxAge, f = weak
      PROVE  k \in Headers /\ Trades(HeaderFindings(h, config), HeaderFindings(k, config), f)
  <2>1. PICK old \in h.hsts : k = [h EXCEPT !.hsts = {WithAge(old, age)}]
    BY <1>6, HeaderNames DEF HeaderRemedies
  <2>2. old = parts /\ old \in Hsts
    BY <1>2
  <2>3. /\ WithAge(old, age) \in Hsts /\ MaxAge(WithAge(old, age)) = config.minMaxAge
        /\ NoSubdomains(WithAge(old, age)) <=> NoSubdomains(old)
    BY <1>1, <2>2, AgeSet
  <2>6. PICK new \in Hsts : /\ k = [h EXCEPT !.hsts = {new}] /\ MaxAge(new) = config.minMaxAge
                            /\ NoSubdomains(new) <=> NoSubdomains(old)
    BY <2>1, <2>3
  <2>7. ~(MaxAge(new) < config.minMaxAge)
    BY <1>1, <2>6
  <2>4. \A x \in HstsFindings(k, config) : x = open /\ x \in HstsFindings(h, config)
    BY <1>4, <2>6, <2>7, InHsts DEF NoSubdomains
  <2>5. Trades(HstsFindings(h, config), HstsFindings(k, config), f)
    BY <1>6, <2>4, HeaderNames DEF Trades
  <2> QED BY <1>3, <2>1, <2>3, <2>5
<1>7. ASSUME NEW parts \in h.hsts, config.includeSubdomains, NoSubdomains(parts), f = open
      PROVE  k \in Headers /\ Trades(HeaderFindings(h, config), HeaderFindings(k, config), f)
  <2>1. PICK old \in h.hsts : k = [h EXCEPT !.hsts = {Append(old, [name |-> "includesubdomains"])}]
    BY <1>7, HeaderNames DEF HeaderRemedies
  <2> DEFINE new == Append(old, [name |-> "includesubdomains"])
  <2>2. new \in Hsts /\ MaxAge(new) = MaxAge(old) /\ ~NoSubdomains(new)
    BY <1>2, SubdomainsAppended
  <2> HIDE DEF new
  <2>3. \A x \in HstsFindings(k, config) : x = weak /\ x \in HstsFindings(h, config)
    BY <1>4, <2>1, <2>2, InHsts DEF new
  <2>4. Trades(HstsFindings(h, config), HstsFindings(k, config), f)
    BY <1>7, <2>3, HeaderNames DEF Trades
  <2> QED BY <1>3, <2>1, <2>2, <2>4 DEF new
<1> QED BY <1>5, <1>6, <1>7, InHsts DEF NoSubdomains

LEMMA ReferrerPays ==
  ASSUME NEW h \in Headers, NEW config \in Policy, NEW f \in ReferrerFindings(h, config),
         NEW k \in HeaderRemedies(f, h, config)
  PROVE  k \in Headers /\ Trades(HeaderFindings(h, config), HeaderFindings(k, config), f)
<1> DEFINE missing == Say("missing-referrer-policy", "low")
           weak == Say("weak-referrer-policy", "low")
<1>1. \/ h.referrer = {} /\ f = missing
      \/ h.referrer \cap WeakReferrer # {} /\ f = weak
  BY InReferrer
<1>2. missing.rule = "missing-referrer-policy" /\ weak.rule = "weak-referrer-policy"
      /\ missing.severity = "low" /\ weak.severity = "low"
  BY DEF Say
<1> HIDE DEF missing, weak
<1>3. PICK value \in {"no-referrer"} \cup WeakReferrer :
        k = [h EXCEPT !.referrer = {value}] /\ (f = weak => value = "no-referrer")
  <2>1. CASE f = missing
    <3>1. k \in {[h EXCEPT !.referrer = {value}] : value \in {"no-referrer"} \cup WeakReferrer}
      BY <1>2, <2>1 DEF HeaderRemedies
    <3> QED BY <1>2, <2>1, <3>1
  <2>2. CASE f = weak
    <3>1. k = [h EXCEPT !.referrer = {"no-referrer"}]
      BY <1>2, <2>2 DEF HeaderRemedies
    <3> QED BY <3>1
  <2> QED BY <1>1, <2>1, <2>2
<1>4. k \in Headers
  <2>1. value \in Word
    BY DEF Word, WeakReferrer
  <2> QED BY <1>3, <2>1, OneValue DEF Headers
<1>5. /\ k.csp = h.csp /\ k.xfo = h.xfo /\ k.hsts = h.hsts /\ k.referrer = {value}
      /\ k.permissions = h.permissions /\ k.coop = h.coop /\ k.xcto = h.xcto
      /\ k.disclosing = h.disclosing
  BY <1>3 DEF Headers
<1> DEFINE Rest(l) == HstsFindings(l, config)
      \cup PermissionsFindings(l, config) \cup CspFindings(l, config)
      \cup ClickjackingFindings(l) \cup CoopFindings(l) \cup XctoFindings(l)
      \cup LeakedFindings(l, config)
<1>6. Rest(h) = Rest(k)
  BY <1>5 DEF HstsFindings, PermissionsFindings, CspFindings, ClickjackingFindings,
              CoopFindings, XctoFindings, LeakedFindings
<1>7. f \notin Rest(h)
  BY HeaderRulesAre DEF HstsRules, ReferrerRules, CspRules, QualityRules, ClickjackingRules
<1>8. \A l : HeaderFindings(l, config) = ReferrerFindings(l, config) \cup Rest(l)
  BY HeaderParts
<1> HIDE DEF Rest
<1>9. Trades(ReferrerFindings(h, config), ReferrerFindings(k, config), f)
  <2>1. \A x \in ReferrerFindings(k, config) : x = weak /\ value \in WeakReferrer
    BY <1>5, InReferrer DEF weak
  <2>2. CASE f = missing
    <3>1. ReferrerFindings(k, config) \subseteq ReferrerFindings(h, config) \cup {weak}
      BY <2>1
    <3>2. Penalty[weak.severity] <= Penalty[f.severity]
      BY <1>2, <2>2, TradesNames
    <3> QED BY <1>2, <2>1, <2>2, <3>1, <3>2 DEF Trades
  <2>3. CASE f = weak
    <3>1. value \notin WeakReferrer
      BY <1>3, <2>3 DEF WeakReferrer
    <3> QED BY <2>1, <3>1 DEF Trades
  <2> QED BY <1>1, <2>2, <2>3
<1> QED BY <1>4, <1>6, <1>7, <1>8, <1>9, TradesIn

(* Headers that only have to be there, or to go. *)
LEMMA PlainHeadersPay ==
  ASSUME NEW h \in Headers, NEW config \in Policy,
         NEW f \in PermissionsFindings(h, config) \cup CoopFindings(h) \cup XctoFindings(h)
                   \cup LeakedFindings(h, config),
         NEW k \in HeaderRemedies(f, h, config)
  PROVE  k \in Headers /\ Trades(HeaderFindings(h, config), HeaderFindings(k, config), f)
<1>1. {"()", "same-origin", "nosniff"} \subseteq Word
  BY DEF Word
<1> DEFINE Rest(l) == HstsFindings(l, config) \cup ReferrerFindings(l, config)
      \cup CspFindings(l, config) \cup ClickjackingFindings(l)
           Plain(l) == PermissionsFindings(l, config) \cup CoopFindings(l) \cup XctoFindings(l)
                       \cup LeakedFindings(l, config)
<1>2. \A l : HeaderFindings(l, config) = Plain(l) \cup Rest(l)
  BY HeaderParts
<1>3. ASSUME k \in Headers, k.csp = h.csp, k.xfo = h.xfo, k.hsts = h.hsts,
             k.referrer = h.referrer, f \notin Plain(k), Plain(k) \subseteq Plain(h)
      PROVE  k \in Headers /\ Trades(HeaderFindings(h, config), HeaderFindings(k, config), f)
  <2>1. Rest(h) = Rest(k)
    BY <1>3 DEF HstsFindings, ReferrerFindings, CspFindings, ClickjackingFindings
  <2>2. f \notin Rest(h)
    BY HeaderRulesAre DEF HstsRules, ReferrerRules, CspRules, QualityRules, ClickjackingRules
  <2> HIDE DEF Rest, Plain
  <2> QED BY <1>2, <1>3, <2>1, <2>2 DEF Trades
<1>4. CASE f \in PermissionsFindings(h, config)
  <2>1. f.rule = "missing-permissions-policy"
    BY <1>4, HeaderRulesAre
  <2>2. k = [h EXCEPT !.permissions = {"()"}]
    BY <2>1 DEF HeaderRemedies
  <2>3. k \in Headers
    BY <1>1, <2>2, OneValue DEF Headers
  <2>4. /\ k.csp = h.csp /\ k.xfo = h.xfo /\ k.hsts = h.hsts /\ k.referrer = h.referrer
        /\ k.permissions = {"()"} /\ k.coop = h.coop /\ k.xcto = h.xcto
        /\ k.disclosing = h.disclosing
    BY <2>2 DEF Headers
  <2>5. PermissionsFindings(k, config) = {}
    BY <2>4 DEF PermissionsFindings, When, Absent
  <2>6. CoopFindings(k) = CoopFindings(h) /\ XctoFindings(k) = XctoFindings(h)
        /\ LeakedFindings(k, config) = LeakedFindings(h, config)
    BY <2>4 DEF CoopFindings, XctoFindings, LeakedFindings
  <2>7. f \notin Plain(k)
    BY <2>1, <2>5, HeaderRulesAre
  <2> QED BY <1>3, <2>3, <2>4, <2>5, <2>6, <2>7
<1>5. CASE f \in CoopFindings(h)
  <2>1. f.rule = "missing-coop"
    BY <1>5, HeaderRulesAre
  <2>2. k = [h EXCEPT !.coop = {"same-origin"}]
    BY <2>1 DEF HeaderRemedies
  <2>3. k \in Headers
    BY <1>1, <2>2, OneValue DEF Headers
  <2>4. /\ k.csp = h.csp /\ k.xfo = h.xfo /\ k.hsts = h.hsts /\ k.referrer = h.referrer
        /\ k.permissions = h.permissions /\ k.coop = {"same-origin"} /\ k.xcto = h.xcto
        /\ k.disclosing = h.disclosing
    BY <2>2 DEF Headers
  <2>5. CoopFindings(k) = {}
    BY <2>4 DEF CoopFindings, When, Absent
  <2>6. PermissionsFindings(k, config) = PermissionsFindings(h, config)
        /\ XctoFindings(k) = XctoFindings(h)
        /\ LeakedFindings(k, config) = LeakedFindings(h, config)
    BY <2>4 DEF PermissionsFindings, XctoFindings, LeakedFindings
  <2>7. f \notin Plain(k)
    BY <2>1, <2>5, HeaderRulesAre
  <2> QED BY <1>3, <2>3, <2>4, <2>5, <2>6, <2>7
<1>6. CASE f \in XctoFindings(h)
  <2>1. f.rule \in {"missing-xcto", "bad-xcto"}
    BY <1>6, HeaderRulesAre
  <2>2. k = [h EXCEPT !.xcto = {"nosniff"}]
    BY <2>1 DEF HeaderRemedies
  <2>3. k \in Headers
    BY <1>1, <2>2, OneValue DEF Headers
  <2>4. /\ k.csp = h.csp /\ k.xfo = h.xfo /\ k.hsts = h.hsts /\ k.referrer = h.referrer
        /\ k.permissions = h.permissions /\ k.coop = h.coop /\ k.xcto = {"nosniff"}
        /\ k.disclosing = h.disclosing
    BY <2>2 DEF Headers
  <2>5. XctoFindings(k) = {}
    BY <2>4 DEF XctoFindings, When, Absent
  <2>6. PermissionsFindings(k, config) = PermissionsFindings(h, config)
        /\ CoopFindings(k) = CoopFindings(h)
        /\ LeakedFindings(k, config) = LeakedFindings(h, config)
    BY <2>4 DEF PermissionsFindings, CoopFindings, LeakedFindings
  <2>7. f \notin Plain(k)
    BY <2>1, <2>5, HeaderRulesAre
  <2> QED BY <1>3, <2>3, <2>4, <2>5, <2>6, <2>7
<1>7. CASE f \in LeakedFindings(h, config)
  <2>1. PICK banned \in h.disclosing \cap config.banned : f = Finding("leaked", "info", banned)
    BY <1>7 DEF LeakedFindings
  <2>8. f.rule = "leaked" /\ f.about = banned
    BY <2>1 DEF Finding
  <2>2. k = [h EXCEPT !.disclosing = @ \ {banned}]
    BY <2>8 DEF HeaderRemedies
  <2>3. k \in Headers
    <3>1. h.disclosing \ {banned} \in Finite(Word)
      BY FS_Subset DEF Headers, Finite
    <3> QED BY <2>2, <3>1 DEF Headers
  <2>4. /\ k.csp = h.csp /\ k.xfo = h.xfo /\ k.hsts = h.hsts /\ k.referrer = h.referrer
        /\ k.permissions = h.permissions /\ k.coop = h.coop /\ k.xcto = h.xcto
        /\ k.disclosing = h.disclosing \ {banned}
    BY <2>2 DEF Headers
  <2>5. LeakedFindings(k, config) \subseteq LeakedFindings(h, config)
    BY <2>4 DEF LeakedFindings
  <2>6. PermissionsFindings(k, config) = PermissionsFindings(h, config)
        /\ CoopFindings(k) = CoopFindings(h) /\ XctoFindings(k) = XctoFindings(h)
    BY <2>4 DEF PermissionsFindings, CoopFindings, XctoFindings
  <2>7. f \notin Plain(k)
    <3>1. f \notin LeakedFindings(k, config)
      <4>1. ASSUME NEW other \in k.disclosing, f = Finding("leaked", "info", other) PROVE FALSE
        BY <2>4, <2>8, <4>1 DEF Finding
      <4> QED BY <4>1 DEF LeakedFindings
    <3> QED BY <2>8, <3>1, HeaderRulesAre
  <2> QED BY <1>3, <2>3, <2>4, <2>5, <2>6, <2>7
<1> QED BY <1>4, <1>5, <1>6, <1>7

(* A CSP that is set, and nothing else. *)
LEMMA CspSet ==
  ASSUME NEW h \in Headers, NEW csp \in Csp, NEW k, k = [h EXCEPT !.csp = {csp}]
  PROVE  /\ k \in Headers
         /\ k.csp = {csp} /\ k.xfo = h.xfo /\ k.hsts = h.hsts /\ k.referrer = h.referrer
         /\ k.permissions = h.permissions /\ k.coop = h.coop /\ k.xcto = h.xcto
         /\ k.disclosing = h.disclosing
         /\ Covered(k) <=> "frame-ancestors" \in DOMAIN ParseCsp(csp)
<1>1. k \in Headers
  BY OneValue DEF Headers
<1>2. /\ k.csp = {csp} /\ k.xfo = h.xfo /\ k.hsts = h.hsts /\ k.referrer = h.referrer
      /\ k.permissions = h.permissions /\ k.coop = h.coop /\ k.xcto = h.xcto
      /\ k.disclosing = h.disclosing
  BY DEF Headers
<1> QED BY <1>1, <1>2 DEF Covered

(* A CSP is wanted, or made better: what frames a page can only be in less. *)
LEMMA CspPays ==
  ASSUME NEW h \in Headers, NEW config \in Policy, NEW f \in CspFindings(h, config),
         NEW k \in HeaderRemedies(f, h, config)
  PROVE  k \in Headers /\ Trades(HeaderFindings(h, config), HeaderFindings(k, config), f)
<1> DEFINE Rest(l) == HstsFindings(l, config) \cup ReferrerFindings(l, config)
      \cup PermissionsFindings(l, config) \cup CoopFindings(l) \cup XctoFindings(l)
      \cup LeakedFindings(l, config)
           base == Say("csp-missing-base-uri", "low")
<1>1. \A l : HeaderFindings(l, config) = CspFindings(l, config) \cup ClickjackingFindings(l) \cup Rest(l)
  BY HeaderParts
<1>2. f \notin Rest(h)
  BY HeaderRulesAre DEF HstsRules, ReferrerRules, CspRules, QualityRules, ClickjackingRules
<1>3. f \notin ClickjackingFindings(k)
  BY HeaderRulesAre DEF HstsRules, ReferrerRules, CspRules, QualityRules, ClickjackingRules
<1>4. ASSUME NEW csp \in Csp, k = [h EXCEPT !.csp = {csp}],
             Covered(h) => Covered(k),
             Trades(CspFindings(h, config), CspFindings(k, config), f)
      PROVE  k \in Headers /\ Trades(HeaderFindings(h, config), HeaderFindings(k, config), f)
  <2>1. /\ k \in Headers
        /\ k.csp = {csp} /\ k.xfo = h.xfo /\ k.hsts = h.hsts /\ k.referrer = h.referrer
        /\ k.permissions = h.permissions /\ k.coop = h.coop /\ k.xcto = h.xcto
        /\ k.disclosing = h.disclosing
    BY <1>4, CspSet
  <2>2. Rest(h) = Rest(k)
    BY <2>1 DEF HstsFindings, ReferrerFindings, PermissionsFindings,
                CoopFindings, XctoFindings, LeakedFindings
  <2>3. ClickjackingFindings(k) \subseteq ClickjackingFindings(h)
    BY <1>4, <2>1, InClickjacking
  <2> HIDE DEF Rest
  <2> QED BY <1>1, <1>2, <1>3, <1>4, <2>1, <2>2, <2>3 DEF Trades
<1> HIDE DEF Rest
<1>5. ASSUME NEW csp \in Csp, k = [h EXCEPT !.csp = {csp}]
      PROVE  CspFindings(k, config) = CspQualityFindings(csp)
  <2>1. k.csp = {csp}
    BY <1>5, CspSet
  <2>2. \A x : x \in CspFindings(k, config) <=> x \in CspQualityFindings(csp)
    BY <2>1, InCsp
  <2> QED BY <2>2
<1>6. CASE h.csp = {} /\ f = Say("missing-csp", "medium")
  <2> DEFINE csp == <<Chunk("default-src", {"'self'"})>>
  <2>1. f.rule = "missing-csp" /\ f.severity = "medium" /\ base.severity = "low"
    BY <1>6 DEF Say
  <2>2. k = [h EXCEPT !.csp = {csp}]
    BY <2>1 DEF HeaderRemedies
  <2>3. csp \in Csp
    BY DEF Csp, Chunk, Word
  <2>4. DOMAIN csp = 1..1 /\ csp[1].name = "default-src" /\ csp[1].sources = {"'self'"}
    BY DEF Chunk
  <2> HIDE DEF csp
  <2>5. FirstChunk(csp, "default-src") = 1
    BY <2>3, <2>4, FirstChunkUnique
  <2>6. \A name : name # "default-src" => FirstChunk(csp, name) = 0
    BY <2>3, <2>4, FirstChunkIs
  <2>7. Get(csp, "script-src") = {} /\ Get(csp, "object-src") = {}
        /\ Get(csp, "default-src") = {"'self'"}
    BY <2>3, <2>4, <2>5, <2>6, Parsed DEF Get
  <2>8. Scripts(csp) = {"'self'"} /\ Objects(csp) = {"'self'"}
    BY <2>7, SourcesGot DEF Scripts, Objects
  <2>9. Effective({"'self'"}) = {"'self'"} /\ ~TooBroad({"'self'"})
    BY DEF Effective, Inline, Listed, HashOrNonce, BroadSources, TooBroad
  <2>10. EffectiveScriptSrc(ParseCsp(csp)) = {"'self'"}
    BY <2>8, <2>9 DEF EffectiveScriptSrc, Effective, Scripts
  <2>11. \A x \in CspQualityFindings(csp) : x = base
    BY <2>8, <2>9, <2>10, InQuality
  <2>12. f # base
    BY <1>6 DEF Say
  <2> HIDE DEF base
  <2>13. Trades(CspFindings(h, config), CspFindings(k, config), f)
    <3>1. CspFindings(k, config) \subseteq CspFindings(h, config) \cup {base}
      BY <1>5, <2>2, <2>3, <2>11
    <3>2. Penalty[base.severity] <= Penalty[f.severity]
      BY <2>1, TradesNames
    <3>3. f \notin CspFindings(k, config)
      BY <1>5, <2>2, <2>3, <2>11, <2>12
    <3> QED BY <3>1, <3>2, <3>3 DEF Trades
  <2>14. ~Covered(h)
    BY <1>6 DEF Covered
  <2> QED BY <1>4, <2>2, <2>3, <2>13, <2>14
<1>7. ASSUME NEW csp \in h.csp, f \in CspQualityFindings(csp)
      PROVE  k \in Headers /\ Trades(HeaderFindings(h, config), HeaderFindings(k, config), f)
  <2>1. h.csp = {csp} /\ csp \in Csp
    BY HeadersAre
  <2>2. f.rule \in QualityRules
    BY <1>7, QualityRulesAre
  <2>3. PICK new \in CspRemedies(f.rule, csp) : k = [h EXCEPT !.csp = {new}]
    <3>1. k \in {[h EXCEPT !.csp = {c}] : c \in UNION {CspRemedies(f.rule, d) : d \in h.csp}}
      BY <2>2 DEF HeaderRemedies, QualityRules
    <3> QED BY <2>1, <3>1
  <2>4. /\ new \in Csp
        /\ f \notin CspQualityFindings(new)
        /\ CspQualityFindings(new) \subseteq CspQualityFindings(csp)
        /\ "frame-ancestors" \in DOMAIN ParseCsp(new) <=>
             "frame-ancestors" \in DOMAIN ParseCsp(csp)
    BY <1>7, <2>1, CspRemedyPays
  <2>5. Covered(h) <=> "frame-ancestors" \in DOMAIN ParseCsp(csp)
    BY <2>1 DEF Covered
  <2>6. Covered(k) <=> "frame-ancestors" \in DOMAIN ParseCsp(new)
    BY <2>3, <2>4, CspSet
  <2>7. CspQualityFindings(csp) \subseteq CspFindings(h, config)
    BY <2>1, InCsp
  <2>8. Trades(CspFindings(h, config), CspFindings(k, config), f)
    BY <1>5, <2>3, <2>4, <2>7 DEF Trades
  <2> QED BY <1>4, <2>3, <2>4, <2>5, <2>6, <2>8
<1> QED BY <1>6, <1>7, InCsp

(* A page that may be framed: with a CSP of its own, the first one is all    *)
(* that can cost more.                                                       *)
LEMMA FramingPays ==
  ASSUME NEW h \in Headers, NEW config \in Policy, NEW f \in ClickjackingFindings(h),
         NEW k \in HeaderRemedies(f, h, config)
  PROVE  /\ k \in Headers
         /\ f \notin HeaderFindings(k, config)
         /\ \/ Trades(HeaderFindings(h, config), HeaderFindings(k, config), f)
            \/ h.csp = {} /\ k.csp # {}
<1> DEFINE Rest(l) == HstsFindings(l, config) \cup ReferrerFindings(l, config)
      \cup PermissionsFindings(l, config) \cup CoopFindings(l) \cup XctoFindings(l)
      \cup LeakedFindings(l, config)
<1>1. \A l : HeaderFindings(l, config) = CspFindings(l, config) \cup ClickjackingFindings(l) \cup Rest(l)
  BY HeaderParts
<1>2. f.rule \in ClickjackingRules
  BY HeaderRulesAre
<1>3. \A l : f \notin Rest(l) /\ f \notin CspFindings(l, config)
  BY <1>2, HeaderRulesAre
     DEF HstsRules, ReferrerRules, CspRules, QualityRules, ClickjackingRules
<1>4. ASSUME k.hsts = h.hsts, k.referrer = h.referrer, k.permissions = h.permissions,
             k.coop = h.coop, k.xcto = h.xcto, k.disclosing = h.disclosing
      PROVE  Rest(k) = Rest(h)
  BY <1>4 DEF HstsFindings, ReferrerFindings, PermissionsFindings, CoopFindings,
              XctoFindings, LeakedFindings
<1> HIDE DEF Rest
<1>5. {"'none'", "deny"} \subseteq Word
  BY DEF Word
<1>6. \/ k = [h EXCEPT !.xfo = {"deny"}]
      \/ \E csp \in FrameAncestors(h) : k = [h EXCEPT !.csp = {csp}]
  BY <1>2 DEF HeaderRemedies, ClickjackingRules
<1>7. CASE k = [h EXCEPT !.xfo = {"deny"}]
  <2>1. k \in Headers
    BY <1>5, <1>7, OneValue DEF Headers
  <2>2. /\ k.csp = h.csp /\ k.xfo = {"deny"} /\ k.hsts = h.hsts /\ k.referrer = h.referrer
        /\ k.permissions = h.permissions /\ k.coop = h.coop /\ k.xcto = h.xcto
        /\ k.disclosing = h.disclosing
    BY <1>7 DEF Headers
  <2>3. ClickjackingFindings(k) = {}
    BY <2>2, InClickjacking DEF ValidXfo
  <2>4. CspFindings(k, config) = CspFindings(h, config)
    BY <2>2 DEF CspFindings
  <2> QED BY <1>1, <1>3, <1>4, <2>1, <2>2, <2>3, <2>4 DEF Trades
<1>8. ASSUME NEW csp \in FrameAncestors(h), k = [h EXCEPT !.csp = {csp}]
      PROVE  /\ k \in Headers
             /\ f \notin HeaderFindings(k, config)
             /\ \/ Trades(HeaderFindings(h, config), HeaderFindings(k, config), f)
                \/ h.csp = {} /\ k.csp # {}
  <2>1. CASE h.csp = {}
    <3> DEFINE new == <<Chunk("frame-ancestors", {"'none'"})>>
    <3>1. csp = new
      BY <2>1, <1>8 DEF FrameAncestors, Absent
    <3>2. new \in Csp
      BY DEF Csp, Chunk, Word
    <3>3. DOMAIN new = 1..1 /\ new[1].name = "frame-ancestors"
      BY DEF Chunk
    <3> HIDE DEF new
    <3>4. FirstChunk(new, "frame-ancestors") = 1
      BY <3>2, <3>3, FirstChunkUnique
    <3>5. "frame-ancestors" \in DOMAIN ParseCsp(new)
      BY <3>2, <3>4, Parsed
    <3>6. k \in Headers /\ k.csp # {} /\ Covered(k)
      BY <1>8, <3>1, <3>2, <3>5, CspSet
    <3>7. ClickjackingFindings(k) = {}
      BY <3>6, InClickjacking
    <3> QED BY <1>1, <1>3, <2>1, <3>6, <3>7
  <2>2. CASE h.csp # {}
    <3>1. PICK old \in h.csp : csp = WithDirective(old, "frame-ancestors", {"'none'"})
      BY <1>8, <2>2 DEF FrameAncestors, Absent
    <3>2. h.csp = {old} /\ old \in Csp
      BY HeadersAre
    <3>3. /\ csp \in Csp /\ Scripts(csp) = Scripts(old) /\ Objects(csp) = Objects(old)
          /\ \A other : other \in DOMAIN ParseCsp(csp) <=>
                          other = "frame-ancestors" \/ other \in DOMAIN ParseCsp(old)
      BY <1>5, <3>1, <3>2, OtherSet
    <3>4. /\ k \in Headers
          /\ k.csp = {csp} /\ k.xfo = h.xfo /\ k.hsts = h.hsts /\ k.referrer = h.referrer
          /\ k.permissions = h.permissions /\ k.coop = h.coop /\ k.xcto = h.xcto
          /\ k.disclosing = h.disclosing /\ Covered(k)
      BY <1>8, <3>3, CspSet
    <3>5. ClickjackingFindings(k) = {}
      BY <3>4, InClickjacking
    <3>6. CspQualityFindings(csp) \subseteq CspQualityFindings(old)
      BY <3>3, NothingWorse
    <3>7. CspFindings(k, config) \subseteq CspFindings(h, config)
      BY <3>2, <3>4, <3>6, InCsp
    <3> QED BY <1>1, <1>3, <1>4, <3>4, <3>5, <3>7 DEF Trades
  <2> QED BY <2>1, <2>2
<1> QED BY <1>6, <1>7, <1>8

(* The remedies for headers. *)
LEMMA HeadersPay ==
  ASSUME NEW h \in Headers, NEW config \in Policy, NEW f \in HeaderFindings(h, config),
         NEW k \in HeaderRemedies(f, h, config)
  PROVE  /\ k \in Headers
         /\ f \notin HeaderFindings(k, config)
         /\ \/ Trades(HeaderFindings(h, config), HeaderFindings(k, config), f)
            \/ h.csp = {} /\ k.csp # {} /\ f.rule \in ClickjackingRules
<1>1. CASE f \in HstsFindings(h, config)
  BY <1>1, HstsPays DEF Trades
<1>2. CASE f \in ReferrerFindings(h, config)
  BY <1>2, ReferrerPays DEF Trades
<1>3. CASE f \in PermissionsFindings(h, config) \cup CoopFindings(h) \cup XctoFindings(h)
                 \cup LeakedFindings(h, config)
  BY <1>3, PlainHeadersPay DEF Trades
<1>4. CASE f \in CspFindings(h, config)
  BY <1>4, CspPays DEF Trades
<1>5. CASE f \in ClickjackingFindings(h)
  BY <1>5, FramingPays, HeaderRulesAre
<1> QED BY <1>1, <1>2, <1>3, <1>4, <1>5, HeaderParts

-----------------------------------------------------------------------------
(* What is said of the rest of a page. *)
LEMMA InCookies ==
  ASSUME NEW p, NEW x
  PROVE  x \in CookieFindings(p) <=>
           \/ \E c \in p.cookies :
                /\ c.name # ""
                /\ \/ /\ p.url.scheme = "https" /\ ~c.secure
                      /\ x = Finding("cookie-missing-secure", "medium", c.name)
                   \/ ~c.httponly /\ x = Finding("cookie-missing-httponly", "low", c.name)
                   \/ c.samesite = {} /\ x = Finding("cookie-missing-samesite", "low", c.name)
                   \/ /\ c.samesite = {"none"} /\ ~c.secure
                      /\ x = Finding("cookie-samesite-none-without-secure", "medium", c.name)
           \/ /\ p.url.scheme = "http" /\ p.jar # {}
              /\ x = Say("cookies-over-http", "high")
<1> DEFINE Of(c) ==
      {<<"cookie-missing-secure", "medium", p.url.scheme = "https" /\ ~c.secure>>,
       <<"cookie-missing-httponly", "low", ~c.httponly>>,
       <<"cookie-missing-samesite", "low", c.samesite = {}>>,
       <<"cookie-samesite-none-without-secure", "medium",
         c.samesite = {"none"} /\ ~c.secure>>}
           Told(c) == {Finding(f[1], f[2], c.name) : f \in {f \in Of(c) : f[3]}}
           jar == When(p.url.scheme = "http" /\ p.jar # {}, "cookies-over-http", "high")
           Is(c) == \/ /\ p.url.scheme = "https" /\ ~c.secure
                       /\ x = Finding("cookie-missing-secure", "medium", c.name)
                    \/ ~c.httponly /\ x = Finding("cookie-missing-httponly", "low", c.name)
                    \/ c.samesite = {} /\ x = Finding("cookie-missing-samesite", "low", c.name)
                    \/ /\ c.samesite = {"none"} /\ ~c.secure
                       /\ x = Finding("cookie-samesite-none-without-secure", "medium", c.name)
<1>1. CookieFindings(p) = jar \cup UNION {Told(c) : c \in {c \in p.cookies : c.name # ""}}
  BY DEF CookieFindings
<1>2. ASSUME NEW c PROVE x \in Told(c) <=> Is(c)
  <2> DEFINE secure == <<"cookie-missing-secure", "medium", p.url.scheme = "https" /\ ~c.secure>>
             httponly == <<"cookie-missing-httponly", "low", ~c.httponly>>
             samesite == <<"cookie-missing-samesite", "low", c.samesite = {}>>
             none == <<"cookie-samesite-none-without-secure", "medium",
                       c.samesite = {"none"} /\ ~c.secure>>
  <2>1. \A f : f \in Of(c) <=> f = secure \/ f = httponly \/ f = samesite \/ f = none
    OBVIOUS
  <2>2. x \in Told(c) <=> \E f \in Of(c) : f[3] /\ x = Finding(f[1], f[2], c.name)
    OBVIOUS
  <2>3. /\ secure[1] = "cookie-missing-secure" /\ secure[2] = "medium"
        /\ secure[3] <=> p.url.scheme = "https" /\ ~c.secure
    OBVIOUS
  <2>4. /\ httponly[1] = "cookie-missing-httponly" /\ httponly[2] = "low"
        /\ httponly[3] <=> ~c.httponly
    OBVIOUS
  <2>5. /\ samesite[1] = "cookie-missing-samesite" /\ samesite[2] = "low"
        /\ samesite[3] <=> c.samesite = {}
    OBVIOUS
  <2>6. /\ none[1] = "cookie-samesite-none-without-secure" /\ none[2] = "medium"
        /\ none[3] <=> c.samesite = {"none"} /\ ~c.secure
    OBVIOUS
  <2> HIDE DEF Of, Told, secure, httponly, samesite, none
  <2> QED BY <2>1, <2>2, <2>3, <2>4, <2>5, <2>6
<1>3. x \in jar <=> /\ p.url.scheme = "http" /\ p.jar # {}
                    /\ x = Say("cookies-over-http", "high")
  BY DEF When, Finding, Say
<1> HIDE DEF Told, jar, Is
<1>4. x \in UNION {Told(c) : c \in {c \in p.cookies : c.name # ""}} <=>
        \E c \in p.cookies : c.name # "" /\ x \in Told(c)
  OBVIOUS
<1>5. x \in CookieFindings(p) <=>
        \/ \E c \in p.cookies : c.name # "" /\ Is(c)
        \/ /\ p.url.scheme = "http" /\ p.jar # {}
           /\ x = Say("cookies-over-http", "high")
  <2>1. x \in CookieFindings(p) <=>
          x \in UNION {Told(c) : c \in {c \in p.cookies : c.name # ""}} \/ x \in jar
    BY <1>1
  <2>2. (\E c \in p.cookies : c.name # "" /\ x \in Told(c)) <=>
          \E c \in p.cookies : c.name # "" /\ Is(c)
    BY <1>2
  <2> QED BY <1>3, <1>4, <2>1, <2>2, Zenon
<1> QED BY <1>5, Zenon DEF Is

LEMMA InHttps ==
  ASSUME NEW p, NEW x
  PROVE  x \in HttpsFindings(p) <=>
           \/ p.final.scheme # "https" /\ x = Say("not-https", "high")
           \/ /\ p.html /\ \E tag \in p.tags : tag.plain
              /\ x = Say("mixed-content", "medium")
BY DEF HttpsFindings, When, Finding, Say

LEMMA InExposure ==
  ASSUME NEW p, NEW x
  PROVE  x \in ExposureFindings(p) <=>
           \/ /\ p.status = 200 /\ p.url.path = "/.env" /\ "key=value" \in p.body
              /\ x = Say("conf-env-exposed", "high")
           \/ /\ p.status = 200 /\ p.url.path = "/.git/HEAD" /\ "ref: refs/" \in p.body
              /\ x = Say("git-repo-exposed", "high")
BY DEF ExposureFindings, When, Finding, Say

LEMMA InSecurityTxt ==
  ASSUME NEW p, NEW x
  PROVE  x \in SecurityTxtFindings(p) <=>
           /\ p.url.path = "/.well-known/security.txt"
           /\ \/ ~(p.status < 400) /\ x = Say("sectxt-missing", "low")
              \/ /\ p.status < 400 /\ "Contact:" \notin p.body
                 /\ x = Say("sectxt-no-contact", "high")
              \/ /\ p.status < 400 /\ "Expires:" \notin p.body
                 /\ x = Say("sectxt-no-expires", "medium")
BY DEF SecurityTxtFindings, When, Finding, Say

Unpinned(p, tag) ==
  p.html /\ tag.kind \in {"script", "stylesheet"} /\ tag.external /\ ~tag.integrity

LEMMA InSri ==
  ASSUME NEW p, NEW x
  PROVE  x \in SriFindings(p) <=>
           \E tag \in p.tags : Unpinned(p, tag) /\ x = Finding("missing-sri", "medium", tag.src)
BY DEF SriFindings, Unpinned

LEMMA InContent ==
  ASSUME NEW p, NEW x
  PROVE  x \in ContentFindings(p) <=>
           \/ \E name \in DOMAIN LeakSeverity \cap p.body :
                x = Finding("leak", LeakSeverity[name], name)
           \/ \E lib \in p.libraries : p.html /\ x = Finding("vuln-js", "medium", lib)
           \/ /\ p.html /\ "sourceMappingURL=" \in p.body
              /\ x = Say("sourcemap-exposed", "info")
<1> DEFINE leaks == {Finding("leak", LeakSeverity[name], name) : name \in DOMAIN LeakSeverity \cap p.body}
           libs == {Finding("vuln-js", "medium", lib) : lib \in {l \in p.libraries : p.html}}
           map == When(p.html /\ "sourceMappingURL=" \in p.body, "sourcemap-exposed", "info")
<1>1. ContentFindings(p) = leaks \cup libs \cup map
  BY DEF ContentFindings, LeakFindings, JavascriptFindings
<1>2. x \in leaks <=> \E name \in DOMAIN LeakSeverity \cap p.body :
                        x = Finding("leak", LeakSeverity[name], name)
  OBVIOUS
<1>3. x \in libs <=> \E lib \in p.libraries : p.html /\ x = Finding("vuln-js", "medium", lib)
  OBVIOUS
<1>4. x \in map <=> /\ p.html /\ "sourceMappingURL=" \in p.body
                    /\ x = Say("sourcemap-exposed", "info")
  BY DEF When, Finding, Say
<1> HIDE DEF leaks, libs, map
<1> QED BY <1>1, <1>2, <1>3, <1>4

LEMMA InCors ==
  ASSUME NEW p, NEW x
  PROVE  x \in CorsFindings(p) <=>
           \/ /\ p.allowOrigin = "the probe's" /\ p.credentials
              /\ x = Say("cors-reflected-origin-credentials", "high")
           \/ /\ p.allowOrigin = "the probe's" /\ ~p.credentials
              /\ x = Say("cors-reflected-origin", "medium")
           \/ /\ p.allowOrigin = "*" /\ p.credentials
              /\ x = Say("cors-wildcard-with-credentials", "low")
           \/ p.allowOrigin = "*" /\ ~p.credentials /\ x = Say("cors-wildcard", "info")
BY DEF CorsFindings, When, Finding, Say

LEMMA PageNames ==
  /\ Say("cookies-over-http", "high").rule = "cookies-over-http"
  /\ Say("not-https", "high").rule = "not-https"
  /\ Say("mixed-content", "medium").rule = "mixed-content"
  /\ Say("conf-env-exposed", "high").rule = "conf-env-exposed"
  /\ Say("git-repo-exposed", "high").rule = "git-repo-exposed"
  /\ Say("sectxt-missing", "low").rule = "sectxt-missing"
  /\ Say("sectxt-no-contact", "high").rule = "sectxt-no-contact"
  /\ Say("sectxt-no-expires", "medium").rule = "sectxt-no-expires"
  /\ Say("sourcemap-exposed", "info").rule = "sourcemap-exposed"
  /\ Say("cors-reflected-origin-credentials", "high").rule = "cors-reflected-origin-credentials"
  /\ Say("cors-reflected-origin", "medium").rule = "cors-reflected-origin"
  /\ Say("cors-wildcard-with-credentials", "low").rule = "cors-wildcard-with-credentials"
  /\ Say("cors-wildcard", "info").rule = "cors-wildcard"
BY DEF Say

LEMMA FindingIs ==
  ASSUME NEW rule, NEW severity, NEW about
  PROVE  /\ Finding(rule, severity, about).rule = rule
         /\ Finding(rule, severity, about).severity = severity
         /\ Finding(rule, severity, about).about = about
BY DEF Finding

(* Each check has rules of its own. *)
JarRules == CookieRules \cup {"cookies-over-http"}
HttpsRules == {"not-https", "mixed-content"}
ExposureRules == {"conf-env-exposed", "git-repo-exposed"}
SecurityTxtRules == {"sectxt-missing", "sectxt-no-contact", "sectxt-no-expires"}
ContentRules == {"leak", "vuln-js", "sourcemap-exposed"}
CorsRules ==
  {"cors-reflected-origin-credentials", "cors-reflected-origin",
   "cors-wildcard-with-credentials", "cors-wildcard"}

LEMMA PageRulesAre ==
  ASSUME NEW p, NEW x
  PROVE  /\ x \in CookieFindings(p) => x.rule \in JarRules
         /\ x \in HttpsFindings(p) => x.rule \in HttpsRules
         /\ x \in ExposureFindings(p) => x.rule \in ExposureRules
         /\ x \in SecurityTxtFindings(p) => x.rule \in SecurityTxtRules
         /\ x \in SriFindings(p) => x.rule = "missing-sri"
         /\ x \in ContentFindings(p) => x.rule \in ContentRules
         /\ x \in CorsFindings(p) => x.rule \in CorsRules
<1>1. x \in CookieFindings(p) => x.rule \in JarRules
  <2>1. ASSUME NEW c,
               \/ x = Finding("cookie-missing-secure", "medium", c)
               \/ x = Finding("cookie-missing-httponly", "low", c)
               \/ x = Finding("cookie-missing-samesite", "low", c)
               \/ x = Finding("cookie-samesite-none-without-secure", "medium", c)
        PROVE  x.rule \in JarRules
    BY <2>1 DEF Finding, JarRules, CookieRules
  <2>2. x = Say("cookies-over-http", "high") => x.rule \in JarRules
    BY PageNames DEF JarRules
  <2>3. x \in CookieFindings(p) =>
          \/ \E c \in p.cookies :
               \/ x = Finding("cookie-missing-secure", "medium", c.name)
               \/ x = Finding("cookie-missing-httponly", "low", c.name)
               \/ x = Finding("cookie-missing-samesite", "low", c.name)
               \/ x = Finding("cookie-samesite-none-without-secure", "medium", c.name)
          \/ x = Say("cookies-over-http", "high")
    BY InCookies
  <2> QED BY <2>1, <2>2, <2>3
<1>2. x \in HttpsFindings(p) => x.rule \in HttpsRules
  BY InHttps, PageNames DEF HttpsRules
<1>3. x \in ExposureFindings(p) => x.rule \in ExposureRules
  BY WhenSays, PageNames DEF ExposureFindings, ExposureRules
<1>4. x \in SecurityTxtFindings(p) => x.rule \in SecurityTxtRules
  BY InSecurityTxt, PageNames DEF SecurityTxtRules
<1>5. x \in SriFindings(p) => x.rule = "missing-sri"
  BY InSri, FindingIs
<1>6. x \in ContentFindings(p) => x.rule \in ContentRules
  <2>1. \A name : /\ Finding("leak", LeakSeverity[name], name).rule = "leak"
                  /\ Finding("vuln-js", "medium", name).rule = "vuln-js"
    BY DEF Finding
  <2> QED BY <2>1, InContent, PageNames DEF ContentRules
<1>7. x \in CorsFindings(p) => x.rule \in CorsRules
  BY InCors, PageNames DEF CorsRules
<1> QED BY <1>1, <1>2, <1>3, <1>4, <1>5, <1>6, <1>7

(* They are not each other's. *)
LEMMA RulesApart ==
  /\ HeaderRules \cap (CookieRules \cup BodyRules) = {}
  /\ CookieRules \cap BodyRules = {}
  /\ JarRules \cap (HttpsRules \cup ExposureRules \cup SecurityTxtRules \cup {"missing-sri"}
                    \cup ContentRules) = {}
  /\ HeaderRules \cap (JarRules \cup HttpsRules \cup ExposureRules \cup SecurityTxtRules
                       \cup {"missing-sri"} \cup ContentRules) = {}
<1> USE DEF HeaderRules, HstsRules, ReferrerRules, CspRules, QualityRules, ClickjackingRules,
            OtherHeaderRules, CookieRules, BodyRules, JarRules, HttpsRules, ExposureRules,
            SecurityTxtRules, ContentRules
<1>1. HeaderRules \cap (CookieRules \cup BodyRules) = {}
  OBVIOUS
<1>2. CookieRules \cap BodyRules = {}
  OBVIOUS
<1>3. JarRules \cap (HttpsRules \cup ExposureRules \cup SecurityTxtRules \cup {"missing-sri"}
                     \cup ContentRules) = {}
  OBVIOUS
<1>4. HeaderRules \cap (JarRules \cup HttpsRules \cup ExposureRules \cup SecurityTxtRules
                        \cup {"missing-sri"} \cup ContentRules) = {}
  OBVIOUS
<1> QED BY <1>1, <1>2, <1>3, <1>4

-----------------------------------------------------------------------------
(* The remedies for cookies. *)
LEMMA FiniteImage ==
  ASSUME NEW S, IsFiniteSet(S), NEW T, NEW F \in [S -> T]
  PROVE  {F[x] : x \in S} \in Finite(T)
<1> DEFINE R == {F[x] : x \in S}
<1>1. F \in [S -> R]
  OBVIOUS
<1>2. F \in Surjection(S, R)
  BY <1>1 DEF Surjection
<1>3. R \subseteq T
  OBVIOUS
<1> HIDE DEF R
<1>4. IsFiniteSet(R)
  BY <1>2, FS_Surjection
<1> QED BY <1>3, <1>4 DEF R, Finite

(* Cookies that lost nothing of what they had. *)
AsGood(d, c) ==
  /\ d.name = c.name
  /\ c.secure => d.secure
  /\ c.httponly => d.httponly
  /\ d.samesite = c.samesite \/ d.samesite = {"lax"}

LEMMA CookiesNoWorse ==
  ASSUME NEW p, NEW q, q.jar = p.jar,
         \A d \in q.cookies : \E c \in p.cookies : AsGood(d, c),
         \/ q.url.scheme = p.url.scheme
         \/ q.url.scheme = "https" /\ \A d \in q.cookies : d.secure
  PROVE  CookieFindings(q) \subseteq CookieFindings(p)
<1> SUFFICES ASSUME NEW x \in CookieFindings(q) PROVE x \in CookieFindings(p)
  OBVIOUS
<1>1. CASE q.url.scheme = "http" /\ q.jar # {} /\ x = Say("cookies-over-http", "high")
  <2>1. p.url.scheme = "http" /\ p.jar # {}
    BY <1>1
  <2> QED BY <1>1, <2>1, InCookies
<1>2. ASSUME NEW d \in q.cookies, d.name # "",
             \/ /\ q.url.scheme = "https" /\ ~d.secure
                /\ x = Finding("cookie-missing-secure", "medium", d.name)
             \/ ~d.httponly /\ x = Finding("cookie-missing-httponly", "low", d.name)
             \/ d.samesite = {} /\ x = Finding("cookie-missing-samesite", "low", d.name)
             \/ /\ d.samesite = {"none"} /\ ~d.secure
                /\ x = Finding("cookie-samesite-none-without-secure", "medium", d.name)
      PROVE  x \in CookieFindings(p)
  <2>1. PICK c \in p.cookies : AsGood(d, c)
    OBVIOUS
  <2>2. /\ c.name # "" /\ d.name = c.name
        /\ ~d.secure => ~c.secure
        /\ ~d.httponly => ~c.httponly
        /\ d.samesite = {} => c.samesite = {}
        /\ d.samesite = {"none"} => c.samesite = {"none"}
    <3>1. {"lax"} # {} /\ {"lax"} # {"none"}
      OBVIOUS
    <3>2. /\ d.name = c.name
          /\ c.secure => d.secure
          /\ c.httponly => d.httponly
          /\ d.samesite = c.samesite \/ d.samesite = {"lax"}
      BY <2>1 DEF AsGood
    <3> QED BY <1>2, <3>1, <3>2, Zenon
  <2>3. q.url.scheme = "https" /\ ~d.secure => p.url.scheme = "https"
    OBVIOUS
  <2>4. \/ /\ p.url.scheme = "https" /\ ~c.secure
           /\ x = Finding("cookie-missing-secure", "medium", c.name)
        \/ ~c.httponly /\ x = Finding("cookie-missing-httponly", "low", c.name)
        \/ c.samesite = {} /\ x = Finding("cookie-missing-samesite", "low", c.name)
        \/ /\ c.samesite = {"none"} /\ ~c.secure
           /\ x = Finding("cookie-samesite-none-without-secure", "medium", c.name)
    BY <1>2, <2>2, <2>3
  <2> QED BY <2>2, <2>4, InCookies
<1> QED BY <1>1, <1>2, InCookies

LEMMA CookiesPay ==
  ASSUME NEW p \in Page, NEW f \in CookieFindings(p), f.rule \in CookieRules,
         NEW cookies \in CookieRemedies(f, p.cookies), NEW q, q = [p EXCEPT !.cookies = cookies]
  PROVE  /\ q \in Page
         /\ f \notin CookieFindings(q)
         /\ CookieFindings(q) \subseteq CookieFindings(p)
<1> DEFINE Set(F) == {F[c] : c \in p.cookies}
           Secured == [c \in p.cookies |->
                         IF c.name = f.about THEN [c EXCEPT !.secure = TRUE] ELSE c]
           HttpOnly == [c \in p.cookies |->
                          IF c.name = f.about THEN [c EXCEPT !.httponly = TRUE] ELSE c]
           Lax == [c \in p.cookies |->
                     IF c.name = f.about THEN [c EXCEPT !.samesite = {"lax"}] ELSE c]
<1>1. p.cookies \subseteq Cookie /\ IsFiniteSet(p.cookies)
  BY DEF Page, Finite
<1>2. {"lax"} \in Header(Word)
  BY OneValue DEF Word
<1>3. /\ Secured \in [p.cookies -> Cookie] /\ HttpOnly \in [p.cookies -> Cookie]
      /\ Lax \in [p.cookies -> Cookie]
  BY <1>1, <1>2 DEF Cookie
<1>4. \A c \in p.cookies : /\ AsGood(Secured[c], c) /\ AsGood(HttpOnly[c], c) /\ AsGood(Lax[c], c)
                           /\ c.name = f.about =>
                                Secured[c].secure /\ HttpOnly[c].httponly /\ Lax[c].samesite = {"lax"}
  BY <1>1 DEF Cookie, AsGood
<1>13. f # Say("cookies-over-http", "high")
  BY PageNames DEF CookieRules
<1>5. PICK c \in p.cookies :
        \/ f = Finding("cookie-missing-secure", "medium", c.name)
        \/ f = Finding("cookie-missing-httponly", "low", c.name)
        \/ f = Finding("cookie-missing-samesite", "low", c.name)
        \/ f = Finding("cookie-samesite-none-without-secure", "medium", c.name)
  BY <1>13, InCookies
<1>6. /\ f.rule = "cookie-missing-secure" => cookies = Set(Secured)
      /\ f.rule = "cookie-missing-httponly" => cookies = Set(HttpOnly)
      /\ f.rule = "cookie-missing-samesite" => cookies = Set(Lax)
      /\ f.rule = "cookie-samesite-none-without-secure" =>
           cookies = Set(Secured) \/ cookies = Set(Lax)
  BY DEF CookieRemedies
<1> HIDE DEF Secured, HttpOnly, Lax
<1>7. PICK F \in {Secured, HttpOnly, Lax} :
        /\ cookies = Set(F)
        /\ f.rule = "cookie-missing-secure" => F = Secured
        /\ f.rule = "cookie-missing-httponly" => F = HttpOnly
        /\ f.rule = "cookie-missing-samesite" => F = Lax
        /\ f.rule = "cookie-samesite-none-without-secure" => F = Secured \/ F = Lax
  BY <1>6 DEF CookieRules
<1>8. F \in [p.cookies -> Cookie] /\ \A d \in cookies : \E e \in p.cookies : d = F[e] /\ AsGood(d, e)
  BY <1>3, <1>4, <1>7
<1>9. cookies \in Finite(Cookie)
  BY <1>1, <1>7, <1>8, FiniteImage
<1>10. q \in Page /\ q.cookies = cookies /\ q.jar = p.jar /\ q.url = p.url
  BY <1>9 DEF Page
<1>11. CookieFindings(q) \subseteq CookieFindings(p)
  BY <1>8, <1>10, CookiesNoWorse
<1>12. ASSUME f \in CookieFindings(q) PROVE FALSE
  <2>1. PICK d \in cookies :
          \/ f = Finding("cookie-missing-secure", "medium", d.name) /\ ~d.secure
          \/ f = Finding("cookie-missing-httponly", "low", d.name) /\ ~d.httponly
          \/ f = Finding("cookie-missing-samesite", "low", d.name) /\ d.samesite = {}
          \/ /\ f = Finding("cookie-samesite-none-without-secure", "medium", d.name)
             /\ d.samesite = {"none"} /\ ~d.secure
    BY <1>10, <1>12, <1>13, InCookies
  <2>2. PICK e \in p.cookies : d = F[e] /\ AsGood(d, e)
    BY <1>8
  <2>3. e.name = f.about
    BY <2>1, <2>2 DEF AsGood, Finding
  <2>4. CASE f = Finding("cookie-missing-secure", "medium", d.name) /\ ~d.secure
    <3>1. F = Secured
      BY <1>7, <2>4 DEF Finding
    <3> QED BY <1>4, <2>2, <2>3, <2>4, <3>1
  <2>5. CASE f = Finding("cookie-missing-httponly", "low", d.name) /\ ~d.httponly
    <3>1. F = HttpOnly
      BY <1>7, <2>5 DEF Finding
    <3> QED BY <1>4, <2>2, <2>3, <2>5, <3>1
  <2>6. CASE f = Finding("cookie-missing-samesite", "low", d.name) /\ d.samesite = {}
    <3>1. F = Lax
      BY <1>7, <2>6 DEF Finding
    <3> QED BY <1>4, <2>2, <2>3, <2>6, <3>1
  <2>7. CASE /\ f = Finding("cookie-samesite-none-without-secure", "medium", d.name)
             /\ d.samesite = {"none"} /\ ~d.secure
    <3>1. F = Secured \/ F = Lax
      BY <1>7, <2>7 DEF Finding
    <3> QED BY <1>4, <2>2, <2>3, <2>7, <3>1
  <2> QED BY <2>1, <2>4, <2>5, <2>6, <2>7
<1> QED BY <1>10, <1>11, <1>12

-----------------------------------------------------------------------------
(* The remedies for the rest of a page bring nothing new. *)
Better(p, q, f, config) ==
  /\ q \in Page /\ q.probe = p.probe
  /\ q.url = p.url \/ p.url.scheme = "http"
  /\ f \notin PageFindings(q, config)
  /\ PageFindings(q, config) \subseteq PageFindings(p, config)

NoneNew(p, q, f) ==
  /\ CookieFindings(q) \subseteq CookieFindings(p)
  /\ HttpsFindings(q) \subseteq HttpsFindings(p)
  /\ ExposureFindings(q) \subseteq ExposureFindings(p)
  /\ SecurityTxtFindings(q) \subseteq SecurityTxtFindings(p)
  /\ SriFindings(q) \subseteq SriFindings(p)
  /\ ContentFindings(q) \subseteq ContentFindings(p)
  /\ f \notin CookieFindings(q) /\ f \notin HttpsFindings(q) /\ f \notin ExposureFindings(q)
  /\ f \notin SecurityTxtFindings(q) /\ f \notin SriFindings(q) /\ f \notin ContentFindings(q)

LEMMA NothingNew ==
  ASSUME NEW p, NEW q \in Page, NEW config, NEW f, ~p.probe, q.probe = p.probe,
         q.headers = p.headers, q.url = p.url \/ p.url.scheme = "http",
         f.rule \in BodyRules, NoneNew(p, q, f)
  PROVE  Better(p, q, f, config)
<1> DEFINE All(r) == HeaderFindings(r.headers, config) \cup CookieFindings(r)
       \cup HttpsFindings(r) \cup ExposureFindings(r)
       \cup SecurityTxtFindings(r) \cup SriFindings(r) \cup ContentFindings(r)
<1>1. PageFindings(p, config) = All(p) /\ PageFindings(q, config) = All(q)
  BY DEF PageFindings
<1>2. f \notin HeaderFindings(q.headers, config)
  BY HeaderRulesAre, RulesApart
<1>3. All(q) \subseteq All(p) /\ f \notin All(q)
  BY <1>2 DEF NoneNew
<1> HIDE DEF All
<1> QED BY <1>1, <1>3 DEF Better

(* What each check looks at. *)
LEMMA SameCookies ==
  ASSUME NEW p, NEW q, q.url = p.url, q.cookies = p.cookies, q.jar = p.jar
  PROVE  CookieFindings(q) = CookieFindings(p)
BY DEF CookieFindings

LEMMA SameHttps ==
  ASSUME NEW p, NEW q, q.final = p.final, q.html = p.html, q.tags = p.tags
  PROVE  HttpsFindings(q) = HttpsFindings(p)
BY DEF HttpsFindings

LEMMA SameFile ==
  ASSUME NEW p, NEW q, q.url.path = p.url.path, q.status = p.status, q.body = p.body
  PROVE  ExposureFindings(q) = ExposureFindings(p) /\ SecurityTxtFindings(q) = SecurityTxtFindings(p)
<1>1. ExposureFindings(q) = ExposureFindings(p)
  BY DEF ExposureFindings
<1>2. SecurityTxtFindings(q) = SecurityTxtFindings(p)
  BY DEF SecurityTxtFindings
<1> QED BY <1>1, <1>2

LEMMA SameSri ==
  ASSUME NEW p, NEW q, q.html = p.html, q.tags = p.tags
  PROVE  SriFindings(q) = SriFindings(p)
BY DEF SriFindings

LEMMA SameContent ==
  ASSUME NEW p, NEW q, q.html = p.html, q.libraries = p.libraries, q.body = p.body
  PROVE  ContentFindings(q) = ContentFindings(p)
BY DEF ContentFindings, LeakFindings, JavascriptFindings

LEMMA SchemePays ==
  ASSUME NEW p \in Page, ~p.probe, NEW config \in Policy, NEW f \in HttpsFindings(p),
         f.rule = "not-https", NEW q, q = [p EXCEPT !.final.scheme = "https"]
  PROVE  Better(p, q, f, config)
<1>1. "https" \in Word
  BY DEF Word
<1>2. q \in Page /\ q.final.scheme = "https"
  BY <1>1 DEF Page
<1>3. /\ q.url = p.url /\ q.headers = p.headers /\ q.status = p.status /\ q.html = p.html
      /\ q.tags = p.tags /\ q.body = p.body /\ q.libraries = p.libraries
      /\ q.cookies = p.cookies /\ q.jar = p.jar /\ q.probe = p.probe
  BY DEF Page
<1>4. \A x \in HttpsFindings(q) : x = Say("mixed-content", "medium") /\ x \in HttpsFindings(p)
  BY <1>2, <1>3, InHttps
<1>5. f \notin HttpsFindings(q)
  BY <1>4, PageNames
<1>6. f.rule \in BodyRules
  BY DEF BodyRules
<1>7. /\ f \notin CookieFindings(q) /\ f \notin ExposureFindings(q)
      /\ f \notin SecurityTxtFindings(q) /\ f \notin SriFindings(q) /\ f \notin ContentFindings(q)
  BY PageRulesAre DEF JarRules, CookieRules, ExposureRules, SecurityTxtRules, ContentRules
<1>8. /\ CookieFindings(q) \subseteq CookieFindings(p)
      /\ ExposureFindings(q) \subseteq ExposureFindings(p)
      /\ SecurityTxtFindings(q) \subseteq SecurityTxtFindings(p)
      /\ SriFindings(q) \subseteq SriFindings(p)
      /\ ContentFindings(q) \subseteq ContentFindings(p)
  BY <1>3, SameCookies, SameFile, SameSri, SameContent
<1>9. HttpsFindings(q) \subseteq HttpsFindings(p)
  BY <1>4
<1>10. NoneNew(p, q, f)
  BY <1>5, <1>7, <1>8, <1>9 DEF NoneNew
<1> QED BY <1>2, <1>3, <1>6, <1>10, NothingNew

LEMMA JarPays ==
  ASSUME NEW p \in Page, ~p.probe, NEW config \in Policy, NEW f \in CookieFindings(p),
         f.rule = "cookies-over-http",
         NEW q, q = [p EXCEPT !.url.scheme = "https", !.final.scheme = "https",
                              !.cookies = {[c EXCEPT !.secure = TRUE] : c \in p.cookies}]
  PROVE  Better(p, q, f, config)
<1>1. "https" \in Word
  BY DEF Word
<1> DEFINE F == [c \in p.cookies |-> [c EXCEPT !.secure = TRUE]]
<1>2. p.cookies \subseteq Cookie /\ IsFiniteSet(p.cookies)
  BY DEF Page, Finite
<1>3. F \in [p.cookies -> Cookie]
  BY <1>2 DEF Cookie
<1>4. \A c \in p.cookies : AsGood(F[c], c) /\ F[c].secure
  BY <1>2 DEF AsGood, Cookie
<1>5. q.cookies = {F[c] : c \in p.cookies}
  BY DEF Page
<1> HIDE DEF F
<1>6. {F[c] : c \in p.cookies} \in Finite(Cookie)
  BY <1>2, <1>3, FiniteImage
<1>7. /\ q.url.scheme = "https" /\ q.url.path = p.url.path /\ q.final.scheme = "https"
      /\ q.headers = p.headers /\ q.status = p.status /\ q.html = p.html
      /\ q.tags = p.tags /\ q.body = p.body /\ q.libraries = p.libraries
      /\ q.jar = p.jar /\ q.probe = p.probe
  BY DEF Page
<1>8. q \in Page
  <2>1. q = [p EXCEPT !.url.scheme = "https", !.final.scheme = "https", !.cookies = q.cookies]
    BY DEF Page
  <2>2. q.cookies \in Finite(Cookie)
    BY <1>5, <1>6
  <2> QED BY <1>1, <2>1, <2>2 DEF Page
<1>9. \A d \in q.cookies : d.secure /\ \E c \in p.cookies : AsGood(d, c)
  BY <1>4, <1>5
<1>10. CookieFindings(q) \subseteq CookieFindings(p)
  BY <1>7, <1>9, CookiesNoWorse
<1>11. p.url.scheme = "http"
  <2>1. ASSUME NEW c,
               \/ f = Finding("cookie-missing-secure", "medium", c)
               \/ f = Finding("cookie-missing-httponly", "low", c)
               \/ f = Finding("cookie-missing-samesite", "low", c)
               \/ f = Finding("cookie-samesite-none-without-secure", "medium", c)
        PROVE  FALSE
    BY <2>1 DEF Finding
  <2> QED BY <2>1, InCookies
<1>12. f \notin CookieFindings(q)
  <2>1. ASSUME NEW c,
               \/ f = Finding("cookie-missing-secure", "medium", c)
               \/ f = Finding("cookie-missing-httponly", "low", c)
               \/ f = Finding("cookie-missing-samesite", "low", c)
               \/ f = Finding("cookie-samesite-none-without-secure", "medium", c)
        PROVE  FALSE
    BY <2>1 DEF Finding
  <2>2. q.url.scheme # "http"
    BY <1>7
  <2> QED BY <2>1, <2>2, InCookies
<1>13. f.rule \in BodyRules
  BY DEF BodyRules
<1>14. /\ f \notin HttpsFindings(q) /\ f \notin ExposureFindings(q)
       /\ f \notin SecurityTxtFindings(q) /\ f \notin SriFindings(q) /\ f \notin ContentFindings(q)
  BY PageRulesAre DEF HttpsRules, ExposureRules, SecurityTxtRules, ContentRules
<1>15. /\ ExposureFindings(q) \subseteq ExposureFindings(p)
       /\ SecurityTxtFindings(q) \subseteq SecurityTxtFindings(p)
       /\ SriFindings(q) \subseteq SriFindings(p)
       /\ ContentFindings(q) \subseteq ContentFindings(p)
  BY <1>7, SameFile, SameSri, SameContent
<1>16. HttpsFindings(q) \subseteq HttpsFindings(p)
  BY <1>7, InHttps
<1>17. NoneNew(p, q, f)
  BY <1>10, <1>12, <1>14, <1>15, <1>16 DEF NoneNew
<1> QED BY <1>7, <1>8, <1>11, <1>13, <1>17, NothingNew

LEMMA TagsPay ==
  ASSUME NEW p \in Page, ~p.probe, NEW config \in Policy,
         NEW f \in HttpsFindings(p) \cup SriFindings(p), NEW F,
         NEW q, q = [p EXCEPT !.tags = {F[tag] : tag \in p.tags}],
         \/ /\ f.rule = "mixed-content"
            /\ F = [tag \in p.tags |-> [tag EXCEPT !.plain = FALSE]]
         \/ /\ f.rule = "missing-sri"
            /\ F = [tag \in p.tags |->
                      IF tag.src = f.about THEN [tag EXCEPT !.integrity = TRUE] ELSE tag]
  PROVE  Better(p, q, f, config)
<1>1. p.tags \subseteq Tag /\ IsFiniteSet(p.tags)
  BY DEF Page, Finite
<1>2. F \in [p.tags -> Tag]
  <2>1. CASE F = [tag \in p.tags |-> [tag EXCEPT !.plain = FALSE]]
    <3>1. \A tag \in Tag : [tag EXCEPT !.plain = FALSE] \in Tag
      BY DEF Tag
    <3> QED BY <1>1, <2>1, <3>1
  <2>2. CASE F = [tag \in p.tags |->
                    IF tag.src = f.about THEN [tag EXCEPT !.integrity = TRUE] ELSE tag]
    <3>1. \A tag \in Tag : [tag EXCEPT !.integrity = TRUE] \in Tag
      BY DEF Tag
    <3> QED BY <1>1, <2>2, <3>1
  <2> QED BY <2>1, <2>2
<1>3. \A tag \in p.tags :
        /\ F[tag].src = tag.src /\ F[tag].kind = tag.kind /\ F[tag].external = tag.external
        /\ F[tag].plain => tag.plain
        /\ tag.integrity => F[tag].integrity
        /\ f.rule = "mixed-content" => ~F[tag].plain
        /\ f.rule = "missing-sri" /\ tag.src = f.about => F[tag].integrity
  <2>1. CASE f.rule = "mixed-content"
    <3>1. F = [tag \in p.tags |-> [tag EXCEPT !.plain = FALSE]]
      BY <2>1
    <3> QED BY <1>1, <2>1, <3>1 DEF Tag
  <2>2. CASE f.rule = "missing-sri"
    <3>1. F = [tag \in p.tags |->
                 IF tag.src = f.about THEN [tag EXCEPT !.integrity = TRUE] ELSE tag]
      BY <2>2
    <3> QED BY <1>1, <2>2, <3>1 DEF Tag
  <2> QED BY <2>1, <2>2
<1>4. {F[tag] : tag \in p.tags} \in Finite(Tag)
  BY <1>1, <1>2, FiniteImage
<1>5. q \in Page /\ q.tags = {F[tag] : tag \in p.tags}
  BY <1>4 DEF Page
<1>6. /\ q.url = p.url /\ q.final = p.final /\ q.headers = p.headers /\ q.status = p.status
      /\ q.html = p.html /\ q.body = p.body /\ q.libraries = p.libraries
      /\ q.cookies = p.cookies /\ q.jar = p.jar /\ q.probe = p.probe
  BY DEF Page
<1>7. HttpsFindings(q) \subseteq HttpsFindings(p)
  <2> SUFFICES ASSUME NEW x \in HttpsFindings(q) PROVE x \in HttpsFindings(p)
    OBVIOUS
  <2>1. (q.html /\ \E tag \in q.tags : tag.plain) => (p.html /\ \E tag \in p.tags : tag.plain)
    BY <1>3, <1>5, <1>6
  <2>2. \/ q.final.scheme # "https" /\ x = Say("not-https", "high")
        \/ /\ q.html /\ \E tag \in q.tags : tag.plain
           /\ x = Say("mixed-content", "medium")
    BY DEF HttpsFindings, When, Finding, Say
  <2>3. \/ p.final.scheme # "https" /\ x = Say("not-https", "high")
        \/ /\ p.html /\ \E tag \in p.tags : tag.plain
           /\ x = Say("mixed-content", "medium")
    BY <1>6, <2>1, <2>2
  <2> QED BY <2>3, InHttps
<1>8. ASSUME NEW tag \in p.tags, Unpinned(q, F[tag]) PROVE Unpinned(p, tag)
  BY <1>3, <1>6, <1>8 DEF Unpinned
<1>9. SriFindings(q) \subseteq SriFindings(p)
  <2> SUFFICES ASSUME NEW x \in SriFindings(q) PROVE x \in SriFindings(p)
    OBVIOUS
  <2>2. PICK d \in q.tags : Unpinned(q, d) /\ x = Finding("missing-sri", "medium", d.src)
    BY InSri
  <2>1. PICK tag \in p.tags : Unpinned(q, F[tag]) /\ x = Finding("missing-sri", "medium", F[tag].src)
    BY <1>5, <2>2
  <2> QED BY <1>3, <1>8, <2>1, InSri
<1>10. f \notin HttpsFindings(q)
  <2>1. CASE f.rule = "missing-sri"
    BY <2>1, PageRulesAre DEF HttpsRules
  <2>2. CASE f.rule = "mixed-content"
    <3>1. ~\E tag \in q.tags : tag.plain
      BY <1>3, <1>5, <2>2
    <3> QED BY <2>2, <3>1, InHttps, PageNames
  <2> QED BY <2>1, <2>2
<1>11. f \notin SriFindings(q)
  <2>1. CASE f.rule = "mixed-content"
    BY <2>1, PageRulesAre
  <2>2. CASE f.rule = "missing-sri"
    <3>1. ASSUME NEW tag \in p.tags, Unpinned(q, F[tag]),
                 f = Finding("missing-sri", "medium", F[tag].src)
          PROVE  FALSE
      <4>1. tag.src = f.about
        BY <1>3, <3>1 DEF Finding
      <4> QED BY <1>3, <2>2, <3>1, <4>1 DEF Unpinned
    <3>2. \A d \in q.tags : ~(Unpinned(q, d) /\ f = Finding("missing-sri", "medium", d.src))
      BY <1>5, <3>1
    <3> QED BY <3>2, InSri
  <2> QED BY <2>1, <2>2
<1>12. /\ CookieFindings(q) \subseteq CookieFindings(p)
       /\ ExposureFindings(q) \subseteq ExposureFindings(p)
       /\ SecurityTxtFindings(q) \subseteq SecurityTxtFindings(p)
       /\ ContentFindings(q) \subseteq ContentFindings(p)
  BY <1>6, SameCookies, SameFile, SameContent
<1>13. /\ f \notin CookieFindings(q) /\ f \notin ExposureFindings(q)
       /\ f \notin SecurityTxtFindings(q) /\ f \notin ContentFindings(q)
  BY PageRulesAre DEF JarRules, CookieRules, ExposureRules, SecurityTxtRules, ContentRules
<1>14. NoneNew(p, q, f)
  BY <1>7, <1>9, <1>10, <1>11, <1>12, <1>13 DEF NoneNew
<1>15. f.rule \in BodyRules
  BY DEF BodyRules
<1> QED BY <1>5, <1>6, <1>14, <1>15, NothingNew

(* A file that is not served any more is not the one that has to be. *)
LEMMA ExposurePays ==
  ASSUME NEW p \in Page, ~p.probe, NEW config \in Policy, NEW f \in ExposureFindings(p),
         NEW q, q = [p EXCEPT !.status = 403]
  PROVE  Better(p, q, f, config)
<1>1. q \in Page /\ q.status = 403
  BY DEF Page
<1>2. /\ q.url = p.url /\ q.final = p.final /\ q.headers = p.headers
      /\ q.html = p.html /\ q.tags = p.tags /\ q.body = p.body /\ q.libraries = p.libraries
      /\ q.cookies = p.cookies /\ q.jar = p.jar /\ q.probe = p.probe
  BY DEF Page
<1>3. p.url.path # "/.well-known/security.txt"
  <2>1. p.url.path = "/.env" \/ p.url.path = "/.git/HEAD"
    BY InExposure
  <2> QED BY <2>1
<1>4. SecurityTxtFindings(q) = {}
  BY <1>2, <1>3 DEF SecurityTxtFindings, When
<1>5. ExposureFindings(q) = {}
  <2>1. q.status # 200
    BY <1>1
  <2> QED BY <2>1 DEF ExposureFindings, When
<1>6. /\ CookieFindings(q) \subseteq CookieFindings(p)
      /\ HttpsFindings(q) \subseteq HttpsFindings(p)
      /\ SriFindings(q) \subseteq SriFindings(p)
      /\ ContentFindings(q) \subseteq ContentFindings(p)
  <2>1. CookieFindings(q) \subseteq CookieFindings(p)
    BY <1>2, SameCookies
  <2>2. HttpsFindings(q) \subseteq HttpsFindings(p)
    BY <1>2, SameHttps
  <2>3. SriFindings(q) \subseteq SriFindings(p)
    BY <1>2, SameSri
  <2>4. ContentFindings(q) \subseteq ContentFindings(p)
    BY <1>2, SameContent
  <2> QED BY <2>1, <2>2, <2>3, <2>4
<1>7. f.rule \in ExposureRules
  BY PageRulesAre
<1>8. /\ f \notin CookieFindings(q) /\ f \notin HttpsFindings(q)
      /\ f \notin SriFindings(q) /\ f \notin ContentFindings(q)
  BY <1>7, PageRulesAre
     DEF ExposureRules, JarRules, CookieRules, HttpsRules, ContentRules
<1>9. NoneNew(p, q, f)
  BY <1>4, <1>5, <1>6, <1>8 DEF NoneNew
<1>10. f.rule \in BodyRules
  BY <1>7 DEF BodyRules, ExposureRules
<1> QED BY <1>1, <1>2, <1>9, <1>10, NothingNew

(* Words that a body says, or does not say any more. *)
LEMMA WordsPay ==
  ASSUME NEW p \in Page, ~p.probe, NEW config \in Policy,
         NEW f \in SecurityTxtFindings(p), NEW words \in SUBSET {"Contact:", "Expires:"},
         f.rule = "sectxt-missing" => words = {"Contact:", "Expires:"},
         f.rule = "sectxt-no-contact" => words = {"Contact:"},
         f.rule = "sectxt-no-expires" => words = {"Expires:"},
         NEW q, q = [p EXCEPT !.body = p.body \cup words, !.status = 200]
  PROVE  Better(p, q, f, config)
<1>1. p.body \cup words \in Finite(Word)
  <2>1. p.body \subseteq Word /\ IsFiniteSet(p.body)
    BY DEF Page, Finite
  <2>2. {"Contact:", "Expires:"} \subseteq Word
    BY DEF Word
  <2>3. IsFiniteSet({"Contact:", "Expires:"})
    <3>1. {"Contact:", "Expires:"} = {"Contact:"} \cup {"Expires:"}
      OBVIOUS
    <3>2. IsFiniteSet({"Contact:"})
      BY FS_Singleton
    <3> QED BY <3>1, <3>2, FS_AddElement
  <2>4. IsFiniteSet(words)
    BY <2>3, FS_Subset
  <2>5. IsFiniteSet(p.body \cup words)
    BY <2>1, <2>4, FS_Union
  <2> QED BY <2>1, <2>2, <2>5 DEF Finite
<1>2. q \in Page /\ q.status = 200 /\ q.body = p.body \cup words
  <2> DEFINE both == p.body \cup words
  <2>1. both \in Finite(Word) /\ q = [p EXCEPT !.body = both, !.status = 200]
    BY <1>1
  <2> HIDE DEF both
  <2>2. q.status = 200 /\ q.body = both
    BY <2>1 DEF Page
  <2> DEFINE r == [p EXCEPT !.body = both]
  <2>3. r \in Page
    BY <2>1 DEF Page
  <2>4. q = [r EXCEPT !.status = 200]
    BY <2>1 DEF Page
  <2> HIDE DEF r
  <2>5. q \in Page
    BY <2>3, <2>4 DEF Page
  <2> QED BY <2>2, <2>5 DEF both
<1>3. /\ q.url = p.url /\ q.final = p.final /\ q.headers = p.headers
      /\ q.html = p.html /\ q.tags = p.tags /\ q.libraries = p.libraries
      /\ q.cookies = p.cookies /\ q.jar = p.jar /\ q.probe = p.probe
  BY DEF Page
<1>4. p.url.path = "/.well-known/security.txt"
  BY InSecurityTxt
<1>5. ExposureFindings(q) = {}
  <2>1. q.url.path # "/.env" /\ q.url.path # "/.git/HEAD"
    BY <1>3, <1>4
  <2> QED BY <2>1, InExposure
<1>6. /\ "sourceMappingURL=" \in q.body => "sourceMappingURL=" \in p.body
      /\ DOMAIN LeakSeverity \cap q.body = DOMAIN LeakSeverity \cap p.body
  BY <1>2 DEF LeakSeverity
<1>7. ContentFindings(q) \subseteq ContentFindings(p)
  BY <1>3, <1>6 DEF ContentFindings, LeakFindings, JavascriptFindings, When
<1>8. ~(q.status < 400 => FALSE) /\ p.status \in Nat
  BY <1>2 DEF Page
<1>9. f \notin SecurityTxtFindings(q) /\ SecurityTxtFindings(q) \subseteq SecurityTxtFindings(p)
  <2>1. /\ f = Say("sectxt-missing", "low") => SecurityTxtFindings(q) = {}
        /\ f = Say("sectxt-no-contact", "high") =>
             \A x \in SecurityTxtFindings(q) :
               x = Say("sectxt-no-expires", "medium") /\ "Expires:" \notin p.body
        /\ f = Say("sectxt-no-expires", "medium") =>
             \A x \in SecurityTxtFindings(q) :
               x = Say("sectxt-no-contact", "high") /\ "Contact:" \notin p.body
    <3>1. CASE f = Say("sectxt-missing", "low")
      <4>1. "Contact:" \in q.body /\ "Expires:" \in q.body
        BY <1>2, <3>1, PageNames
      <4> QED BY <1>8, <3>1, <4>1, InSecurityTxt, PageNames
    <3>2. CASE f = Say("sectxt-no-contact", "high")
      <4>1. "Contact:" \in q.body /\ p.body \subseteq q.body
        BY <1>2, <3>2, PageNames
      <4>2. \A x \in SecurityTxtFindings(q) :
              x = Say("sectxt-no-expires", "medium") /\ "Expires:" \notin q.body
        BY <1>8, <4>1, InSecurityTxt
      <4> QED BY <3>2, <4>1, <4>2, PageNames
    <3>3. CASE f = Say("sectxt-no-expires", "medium")
      <4>1. "Expires:" \in q.body /\ p.body \subseteq q.body
        BY <1>2, <3>3, PageNames
      <4>2. \A x \in SecurityTxtFindings(q) :
              x = Say("sectxt-no-contact", "high") /\ "Contact:" \notin q.body
        BY <1>8, <4>1, InSecurityTxt
      <4> QED BY <3>3, <4>1, <4>2, PageNames
    <3> QED BY <3>1, <3>2, <3>3
  <2>2. \/ f = Say("sectxt-missing", "low")
        \/ f = Say("sectxt-no-contact", "high") /\ p.status < 400
        \/ f = Say("sectxt-no-expires", "medium") /\ p.status < 400
    BY InSecurityTxt
  <2>3. f \notin SecurityTxtFindings(q)
    BY <2>1, <2>2, PageNames
  <2>4. SecurityTxtFindings(q) \subseteq SecurityTxtFindings(p)
    BY <1>4, <2>1, <2>2, InSecurityTxt
  <2> QED BY <2>3, <2>4
<1>10. /\ CookieFindings(q) \subseteq CookieFindings(p)
       /\ HttpsFindings(q) \subseteq HttpsFindings(p)
       /\ SriFindings(q) \subseteq SriFindings(p)
  BY <1>3, SameCookies, SameHttps, SameSri
<1>11. f.rule \in SecurityTxtRules
  BY PageRulesAre
<1>12. /\ f \notin CookieFindings(q) /\ f \notin HttpsFindings(q)
       /\ f \notin SriFindings(q) /\ f \notin ContentFindings(q)
  BY <1>11, PageRulesAre
     DEF SecurityTxtRules, JarRules, CookieRules, HttpsRules, ContentRules
<1>13. NoneNew(p, q, f)
  BY <1>5, <1>7, <1>9, <1>10, <1>12 DEF NoneNew
<1>14. f.rule \in BodyRules
  BY <1>11 DEF BodyRules, SecurityTxtRules
<1> QED BY <1>2, <1>3, <1>13, <1>14, NothingNew

LEMMA ContentPays ==
  ASSUME NEW p \in Page, ~p.probe, NEW config \in Policy, NEW f \in ContentFindings(p),
         NEW q,
         \/ /\ f.rule = "leak" /\ q = [p EXCEPT !.body = p.body \ {f.about}]
         \/ /\ f.rule = "sourcemap-exposed"
            /\ q = [p EXCEPT !.body = p.body \ {"sourceMappingURL="}]
         \/ f.rule = "vuln-js" /\ q = [p EXCEPT !.libraries = p.libraries \ {f.about}]
  PROVE  Better(p, q, f, config)
<1>1. /\ p.body \subseteq Word /\ IsFiniteSet(p.body)
      /\ p.libraries \subseteq Word /\ IsFiniteSet(p.libraries)
  BY DEF Page, Finite
<1>2. /\ q.url = p.url /\ q.final = p.final /\ q.headers = p.headers /\ q.status = p.status
      /\ q.html = p.html /\ q.tags = p.tags /\ q.cookies = p.cookies /\ q.jar = p.jar
      /\ q.probe = p.probe
  BY DEF Page
<1>3. /\ q = [p EXCEPT !.body = q.body, !.libraries = q.libraries]
      /\ q.body \subseteq p.body /\ q.libraries \subseteq p.libraries
      /\ f.rule = "leak" => q.body = p.body \ {f.about} /\ q.libraries = p.libraries
      /\ f.rule = "sourcemap-exposed" =>
           q.body = p.body \ {"sourceMappingURL="} /\ q.libraries = p.libraries
      /\ f.rule = "vuln-js" => q.body = p.body /\ q.libraries = p.libraries \ {f.about}
  <2>1. CASE f.rule = "leak" /\ q = [p EXCEPT !.body = p.body \ {f.about}]
    BY <2>1 DEF Page
  <2>2. CASE /\ f.rule = "sourcemap-exposed"
             /\ q = [p EXCEPT !.body = p.body \ {"sourceMappingURL="}]
    BY <2>2 DEF Page
  <2>3. CASE f.rule = "vuln-js" /\ q = [p EXCEPT !.libraries = p.libraries \ {f.about}]
    BY <2>3 DEF Page
  <2> QED BY <2>1, <2>2, <2>3
<1>4. q \in Page
  <2>1. q.body \in Finite(Word) /\ q.libraries \in Finite(Word)
    BY <1>1, <1>3, FS_Subset DEF Finite
  <2> QED BY <1>3, <2>1 DEF Page
<1>5. f.rule = "leak" => f.about \in DOMAIN LeakSeverity
  <2>1. ASSUME NEW name \in DOMAIN LeakSeverity, f = Finding("leak", LeakSeverity[name], name)
        PROVE  f.about \in DOMAIN LeakSeverity
    BY <2>1 DEF Finding
  <2>2. ASSUME NEW lib, f = Finding("vuln-js", "medium", lib) PROVE f.rule = "vuln-js"
    BY <2>2 DEF Finding
  <2> QED BY <2>1, <2>2, InContent, PageNames
<1>6. /\ "Contact:" \in p.body => "Contact:" \in q.body
      /\ "Expires:" \in p.body => "Expires:" \in q.body
  BY <1>3, <1>5 DEF LeakSeverity
<1>7. ExposureFindings(q) \subseteq ExposureFindings(p)
  BY <1>2, <1>3 DEF ExposureFindings, When
<1>8. SecurityTxtFindings(q) \subseteq SecurityTxtFindings(p)
  <2> SUFFICES ASSUME NEW x \in SecurityTxtFindings(q) PROVE x \in SecurityTxtFindings(p)
    OBVIOUS
  <2> QED BY <1>2, <1>6, InSecurityTxt
<1>9. ContentFindings(q) \subseteq ContentFindings(p)
  <2> SUFFICES ASSUME NEW x \in ContentFindings(q) PROVE x \in ContentFindings(p)
    OBVIOUS
  <2>1. /\ DOMAIN LeakSeverity \cap q.body \subseteq DOMAIN LeakSeverity \cap p.body
        /\ q.libraries \subseteq p.libraries
        /\ "sourceMappingURL=" \in q.body => "sourceMappingURL=" \in p.body
    BY <1>3
  <2> QED BY <1>2, <2>1, InContent
<1>10. f \notin ContentFindings(q)
  <2>1. ASSUME NEW name \in DOMAIN LeakSeverity \cap q.body,
               f = Finding("leak", LeakSeverity[name], name)
        PROVE  FALSE
    <3>1. f.rule = "leak" /\ f.about = name
      BY <2>1 DEF Finding
    <3> QED BY <1>3, <2>1, <3>1
  <2>2. ASSUME NEW lib \in q.libraries, f = Finding("vuln-js", "medium", lib) PROVE FALSE
    <3>1. f.rule = "vuln-js" /\ f.about = lib
      BY <2>2 DEF Finding
    <3> QED BY <1>3, <2>2, <3>1
  <2>3. ASSUME "sourceMappingURL=" \in q.body, f = Say("sourcemap-exposed", "info") PROVE FALSE
    BY <1>3, <2>3, PageNames
  <2> QED BY <2>1, <2>2, <2>3, InContent
<1>11. CookieFindings(q) \subseteq CookieFindings(p)
  BY <1>2, SameCookies
<1>12. HttpsFindings(q) \subseteq HttpsFindings(p)
  BY <1>2, SameHttps
<1>13. SriFindings(q) \subseteq SriFindings(p)
  BY <1>2, SameSri
<1>14. f.rule \in ContentRules
  BY PageRulesAre
<1>15. /\ f \notin CookieFindings(q) /\ f \notin HttpsFindings(q)
       /\ f \notin ExposureFindings(q) /\ f \notin SecurityTxtFindings(q) /\ f \notin SriFindings(q)
  BY <1>14, PageRulesAre
     DEF ContentRules, JarRules, CookieRules, HttpsRules, ExposureRules, SecurityTxtRules
<1>16. NoneNew(p, q, f)
  BY <1>7, <1>8, <1>9, <1>10, <1>11, <1>12, <1>13, <1>15 DEF NoneNew
<1>17. f.rule \in BodyRules
  BY <1>14 DEF BodyRules, ContentRules
<1> QED BY <1>2, <1>4, <1>16, <1>17, NothingNew

(* Doing what is said of the rest of a page. *)
LEMMA BodyPays ==
  ASSUME NEW p \in Page, ~p.probe, NEW config \in Policy, NEW f, f.rule \in BodyRules,
         f \in CookieFindings(p) \cup HttpsFindings(p) \cup ExposureFindings(p)
               \cup SecurityTxtFindings(p) \cup SriFindings(p) \cup ContentFindings(p),
         NEW q \in BodyRemedies(f, p)
  PROVE  Better(p, q, f, config)
<1>1. CASE f \in CookieFindings(p)
  <2>1. f.rule = "cookies-over-http"
    BY <1>1, PageRulesAre, RulesApart DEF JarRules
  <2>2. q = [p EXCEPT !.url.scheme = "https", !.final.scheme = "https",
                      !.cookies = {[c EXCEPT !.secure = TRUE] : c \in p.cookies}]
    BY <2>1 DEF BodyRemedies, Page
  <2> QED BY <1>1, <2>1, <2>2, JarPays
<1>2. CASE f \in HttpsFindings(p) /\ f.rule = "not-https"
  <2>1. q = [p EXCEPT !.final.scheme = "https"]
    BY <1>2 DEF BodyRemedies
  <2> QED BY <1>2, <2>1, SchemePays
<1>3. CASE f \in HttpsFindings(p) /\ f.rule = "mixed-content"
  <2> DEFINE F == [tag \in p.tags |-> [tag EXCEPT !.plain = FALSE]]
  <2>1. q = [p EXCEPT !.tags = {[tag EXCEPT !.plain = FALSE] : tag \in p.tags}]
    BY <1>3 DEF BodyRemedies, Page
  <2>2. {[tag EXCEPT !.plain = FALSE] : tag \in p.tags} = {F[tag] : tag \in p.tags}
    OBVIOUS
  <2> QED BY <1>3, <2>1, <2>2, TagsPay
<1>4. CASE f \in SriFindings(p)
  <2> DEFINE F == [tag \in p.tags |->
                     IF tag.src = f.about THEN [tag EXCEPT !.integrity = TRUE] ELSE tag]
  <2>1. f.rule = "missing-sri"
    BY <1>4, PageRulesAre
  <2>2. q = [p EXCEPT !.tags = {IF tag.src = f.about THEN [tag EXCEPT !.integrity = TRUE] ELSE tag :
                                  tag \in p.tags}]
    BY <2>1 DEF BodyRemedies, Page
  <2>3. {IF tag.src = f.about THEN [tag EXCEPT !.integrity = TRUE] ELSE tag : tag \in p.tags}
          = {F[tag] : tag \in p.tags}
    OBVIOUS
  <2> QED BY <1>4, <2>1, <2>2, <2>3, TagsPay
<1>5. CASE f \in ExposureFindings(p)
  <2>1. f.rule \in {"conf-env-exposed", "git-repo-exposed"}
    BY <1>5, PageRulesAre DEF ExposureRules
  <2>2. q = [p EXCEPT !.status = 403]
    BY <2>1 DEF BodyRemedies
  <2> QED BY <1>5, <2>2, ExposurePays
<1>6. CASE f \in SecurityTxtFindings(p)
  <2>1. f.rule \in SecurityTxtRules
    BY <1>6, PageRulesAre
  <2>2. PICK words \in SUBSET {"Contact:", "Expires:"} :
          /\ f.rule = "sectxt-missing" => words = {"Contact:", "Expires:"}
          /\ f.rule = "sectxt-no-contact" => words = {"Contact:"}
          /\ f.rule = "sectxt-no-expires" => words = {"Expires:"}
          /\ q = [p EXCEPT !.body = p.body \cup words, !.status = 200]
    <3>1. CASE f.rule = "sectxt-missing"
      <4>1. q = [p EXCEPT !.body = p.body \cup {"Contact:", "Expires:"}, !.status = 200]
        BY <3>1 DEF BodyRemedies, Page
      <4> QED BY <3>1, <4>1
    <3>2. CASE f.rule = "sectxt-no-contact"
      <4>1. q = [p EXCEPT !.body = p.body \cup {"Contact:"}, !.status = 200]
        BY <3>2 DEF BodyRemedies, Page
      <4> QED BY <3>2, <4>1
    <3>3. CASE f.rule = "sectxt-no-expires"
      <4>1. q = [p EXCEPT !.body = p.body \cup {"Expires:"}, !.status = 200]
        BY <3>3 DEF BodyRemedies, Page
      <4> QED BY <3>3, <4>1
    <3> QED BY <2>1, <3>1, <3>2, <3>3 DEF SecurityTxtRules
  <2> QED BY <1>6, <2>2, WordsPay
<1>7. CASE f \in ContentFindings(p)
  <2>1. f.rule \in {"leak", "vuln-js", "sourcemap-exposed"}
    BY <1>7, PageRulesAre DEF ContentRules
  <2>2. \/ /\ f.rule = "leak" /\ q = [p EXCEPT !.body = p.body \ {f.about}]
        \/ /\ f.rule = "sourcemap-exposed"
           /\ q = [p EXCEPT !.body = p.body \ {"sourceMappingURL="}]
        \/ f.rule = "vuln-js" /\ q = [p EXCEPT !.libraries = p.libraries \ {f.about}]
    BY <2>1 DEF BodyRemedies, Page
  <2> QED BY <1>7, <2>2, ContentPays
<1>8. f \in HttpsFindings(p) => f.rule \in {"not-https", "mixed-content"}
  BY PageRulesAre DEF HttpsRules
<1> QED BY <1>1, <1>2, <1>3, <1>4, <1>5, <1>6, <1>7, <1>8

(* An answer to a probe: credentials are not sent to anybody any more, or    *)
(* the origin is a known one.                                                *)
LEMMA CorsPays ==
  ASSUME NEW p \in Page, p.probe, NEW config \in Policy, NEW f \in CorsFindings(p),
         NEW q \in BodyRemedies(f, p)
  PROVE  /\ q \in Page /\ q.probe /\ q.url = p.url
         /\ Trades(PageFindings(p, config), PageFindings(q, config), f)
<1>1. f.rule \in CorsRules
  BY PageRulesAre
<1>2. "an allowed one" \in Word
  BY DEF Word
<1>3. \/ q = [p EXCEPT !.allowOrigin = "an allowed one"]
      \/ /\ f.rule = "cors-wildcard-with-credentials"
         /\ q = [p EXCEPT !.credentials = FALSE]
  BY <1>1 DEF CorsRules, BodyRemedies
<1>4. CASE q = [p EXCEPT !.allowOrigin = "an allowed one"]
  <2>1. q \in Page /\ q.probe /\ q.url = p.url /\ q.allowOrigin = "an allowed one"
    BY <1>2, <1>4 DEF Page
  <2>2. CorsFindings(q) = {}
    BY <2>1, InCors
  <2>3. PageFindings(q, config) = {}
    BY <2>1, <2>2 DEF PageFindings
  <2> QED BY <2>1, <2>3 DEF Trades
<1>5. CASE f.rule = "cors-wildcard-with-credentials" /\ q = [p EXCEPT !.credentials = FALSE]
  <2> DEFINE wildcard == Say("cors-wildcard", "info")
  <2>1. /\ q \in Page /\ q.probe /\ q.url = p.url /\ q.allowOrigin = p.allowOrigin
        /\ q.credentials = FALSE
    BY <1>5 DEF Page
  <2>2. p.allowOrigin = "*" /\ f = Say("cors-wildcard-with-credentials", "low")
    BY <1>5, InCors, PageNames
  <2>3. \A x \in CorsFindings(q) : x = wildcard
    <3>1. q.allowOrigin = "*" /\ ~q.credentials /\ q.allowOrigin # "the probe's"
      BY <2>1, <2>2
    <3> QED BY <3>1 DEF CorsFindings, When, Finding, Say
  <2>4. PageFindings(q, config) = CorsFindings(q)
    BY <2>1 DEF PageFindings
  <2>5. wildcard.severity = "info" /\ f.severity = "low" /\ f # wildcard
    BY <2>2 DEF Say
  <2> HIDE DEF wildcard
  <2>6. PageFindings(q, config) \subseteq PageFindings(p, config) \cup {wildcard}
    BY <2>3, <2>4
  <2>7. Penalty[wildcard.severity] <= Penalty[f.severity]
    BY <2>5, TradesNames
  <2> QED BY <2>1, <2>3, <2>4, <2>5, <2>6, <2>7 DEF Trades
<1> QED BY <1>3, <1>4, <1>5

-----------------------------------------------------------------------------
(* A page that is remedied. *)
LEMMA PagePays ==
  ASSUME NEW p \in Page, NEW config \in Policy, NEW f \in PageFindings(p, config),
         NEW q \in PageRemedies(f, p, config)
  PROVE  /\ q \in Page /\ q.probe = p.probe
         /\ q.url = p.url \/ p.url.scheme = "http"
         /\ f \notin PageFindings(q, config)
         /\ \/ Trades(PageFindings(p, config), PageFindings(q, config), f)
            \/ /\ p.headers.csp = {} /\ q.headers.csp # {} /\ f.rule \in ClickjackingRules
<1>1. CASE p.probe
  <2>1. f \in CorsFindings(p)
    BY <1>1 DEF PageFindings
  <2>2. f.rule \in CorsRules
    BY <2>1, PageRulesAre
  <2>3. f.rule \in BodyRules /\ f.rule \notin CookieRules
    BY <2>2, RulesApart DEF BodyRules, CorsRules
  <2>4. q \in BodyRemedies(f, p)
    BY <2>3 DEF PageRemedies
  <2>5. /\ q \in Page /\ q.probe /\ q.url = p.url
        /\ Trades(PageFindings(p, config), PageFindings(q, config), f)
    BY <1>1, <2>1, <2>4, CorsPays
  <2>6. q.probe = p.probe
    BY <1>1, <2>5 DEF Page
  <2> QED BY <2>5, <2>6 DEF Trades
<1>2. CASE ~p.probe
  <2> DEFINE Body(r) == CookieFindings(r) \cup HttpsFindings(r) \cup ExposureFindings(r)
               \cup SecurityTxtFindings(r) \cup SriFindings(r) \cup ContentFindings(r)
  <2>1. \A r : ~r.probe => PageFindings(r, config) = HeaderFindings(r.headers, config) \cup Body(r)
    BY DEF PageFindings
  <2>2. CASE f \in HeaderFindings(p.headers, config)
    <3>1. f.rule \in HeaderRules
      BY <2>2, HeaderRulesAre
    <3>2. f.rule \notin CookieRules /\ f.rule \notin BodyRules
      BY <3>1, RulesApart
    <3>3. PICK k \in HeaderRemedies(f, p.headers, config) : q = [p EXCEPT !.headers = k]
      BY <3>2 DEF PageRemedies
    <3>4. p.headers \in Headers
      BY DEF Page
    <3>5. /\ k \in Headers
          /\ f \notin HeaderFindings(k, config)
          /\ \/ Trades(HeaderFindings(p.headers, config), HeaderFindings(k, config), f)
             \/ p.headers.csp = {} /\ k.csp # {} /\ f.rule \in ClickjackingRules
      BY <2>2, <3>4, HeadersPay
    <3>6. q \in Page
      BY <3>3, <3>5 DEF Page
    <3>7. /\ q.url = p.url /\ q.final = p.final /\ q.headers = k /\ q.status = p.status
          /\ q.html = p.html /\ q.tags = p.tags /\ q.body = p.body
          /\ q.libraries = p.libraries /\ q.cookies = p.cookies /\ q.jar = p.jar
          /\ q.probe = p.probe
      BY <3>3 DEF Page
    <3>8. Body(q) = Body(p)
      <4>1. CookieFindings(q) = CookieFindings(p) /\ HttpsFindings(q) = HttpsFindings(p)
        BY <3>7 DEF CookieFindings, HttpsFindings
      <4>2. ExposureFindings(q) = ExposureFindings(p)
            /\ SecurityTxtFindings(q) = SecurityTxtFindings(p)
        BY <3>7 DEF ExposureFindings, SecurityTxtFindings
      <4>3. SriFindings(q) = SriFindings(p) /\ ContentFindings(q) = ContentFindings(p)
        BY <3>7 DEF SriFindings, ContentFindings, LeakFindings, JavascriptFindings
      <4> QED BY <4>1, <4>2, <4>3
    <3>9. f \notin Body(q)
      BY <3>1, RulesApart, PageRulesAre
    <3>10. ~q.probe
      BY <1>2, <3>7
    <3>11. PageFindings(p, config) = HeaderFindings(p.headers, config) \cup Body(p)
           /\ PageFindings(q, config) = HeaderFindings(k, config) \cup Body(p)
      BY <1>2, <2>1, <3>7, <3>8, <3>10
    <3> HIDE DEF Body
    <3>12. f \notin PageFindings(q, config)
      BY <3>5, <3>8, <3>9, <3>11
    <3>13. Trades(HeaderFindings(p.headers, config), HeaderFindings(k, config), f) =>
             Trades(PageFindings(p, config), PageFindings(q, config), f)
      BY <3>8, <3>9, <3>11, TradesIn
    <3> QED BY <3>5, <3>6, <3>7, <3>12, <3>13
  <2>3. CASE f \in CookieFindings(p) /\ f.rule \in CookieRules
    <3>1. PICK cookies \in CookieRemedies(f, p.cookies) : q = [p EXCEPT !.cookies = cookies]
      BY <2>3 DEF PageRemedies
    <3>2. /\ q \in Page
          /\ f \notin CookieFindings(q)
          /\ CookieFindings(q) \subseteq CookieFindings(p)
      BY <2>3, <3>1, CookiesPay
    <3>3. /\ q.url = p.url /\ q.final = p.final /\ q.headers = p.headers /\ q.status = p.status
          /\ q.html = p.html /\ q.tags = p.tags /\ q.body = p.body
          /\ q.libraries = p.libraries /\ q.probe = p.probe
      BY <3>1 DEF Page
    <3> DEFINE Rest(r) == HttpsFindings(r) \cup ExposureFindings(r)
                 \cup SecurityTxtFindings(r) \cup SriFindings(r) \cup ContentFindings(r)
    <3>4. Rest(q) = Rest(p)
      <4>1. HttpsFindings(q) = HttpsFindings(p)
        BY <3>3 DEF HttpsFindings
      <4>2. ExposureFindings(q) = ExposureFindings(p)
            /\ SecurityTxtFindings(q) = SecurityTxtFindings(p)
        BY <3>3 DEF ExposureFindings, SecurityTxtFindings
      <4>3. SriFindings(q) = SriFindings(p) /\ ContentFindings(q) = ContentFindings(p)
        BY <3>3 DEF SriFindings, ContentFindings, LeakFindings, JavascriptFindings
      <4> QED BY <4>1, <4>2, <4>3
    <3>5. f \notin Rest(q)
      <4>1. f.rule \in JarRules
        BY <2>3 DEF JarRules
      <4> QED BY <4>1, RulesApart, PageRulesAre
    <3>6. f \notin HeaderFindings(p.headers, config)
      BY <2>3, RulesApart, HeaderRulesAre
    <3>7. \A r : Body(r) = CookieFindings(r) \cup Rest(r)
      OBVIOUS
    <3> HIDE DEF Body, Rest
    <3>8. ~q.probe
      BY <1>2, <3>3
    <3>9. /\ PageFindings(p, config) = HeaderFindings(p.headers, config) \cup CookieFindings(p) \cup Rest(p)
          /\ PageFindings(q, config) = HeaderFindings(p.headers, config) \cup CookieFindings(q) \cup Rest(p)
      BY <1>2, <2>1, <3>3, <3>4, <3>7, <3>8
    <3>10. f \notin PageFindings(q, config) /\ PageFindings(q, config) \subseteq PageFindings(p, config)
      BY <3>2, <3>4, <3>5, <3>6, <3>9
    <3> QED BY <3>2, <3>3, <3>10 DEF Trades
  <2>4. CASE f \in Body(p) /\ f.rule \in BodyRules
    <3>1. f.rule \notin CookieRules
      BY <2>4, RulesApart
    <3>2. q \in BodyRemedies(f, p)
      BY <2>4, <3>1 DEF PageRemedies
    <3>3. Better(p, q, f, config)
      BY <1>2, <2>4, <3>2, BodyPays
    <3> QED BY <3>3 DEF Better, Trades
  <2>5. f \in Body(p) => f.rule \in CookieRules \cup BodyRules
    BY PageRulesAre
       DEF JarRules, HttpsRules, ExposureRules, SecurityTxtRules, ContentRules, BodyRules
  <2>6. f \in Body(p) /\ f.rule \in CookieRules => f \in CookieFindings(p)
    BY PageRulesAre, RulesApart DEF JarRules
  <2>7. f \in HeaderFindings(p.headers, config) \/ f \in Body(p)
    BY <1>2, <2>1
  <2> HIDE DEF Body
  <2> QED BY <2>2, <2>3, <2>4, <2>5, <2>6, <2>7
<1> QED BY <1>1, <1>2

-----------------------------------------------------------------------------
(* A new certificate, or another protocol. *)
LEMMA HostPays ==
  ASSUME NEW url, NEW h \in Host, NEW offset \in -1..2, NEW f \in TlsFindings(url, h, offset),
         NEW k \in TlsRemedies(f, h)
  PROVE  k \in Host /\ f \notin TlsFindings(url, k, offset)
<1>1. h \in [left : Int, rejected : SUBSET Word, reachable : BOOLEAN, protocol : Word]
  BY DEF Host
<1>2. /\ Say("cert-expired", "high").rule = "cert-expired"
      /\ Say("cert-expiring-soon", "medium").rule = "cert-expiring-soon"
      /\ Say("deprecated-tls", "high").rule = "deprecated-tls"
  BY DEF Say
<1>3. \A phrases : Say(ClassifyCertError(phrases), "high").rule # "deprecated-tls"
  BY Classified DEF Say, CertRules
<1>4. CASE f.rule = "deprecated-tls"
  <2>1. k = [h EXCEPT !.protocol = "TLSv1.3"]
    BY <1>4 DEF TlsRemedies
  <2>2. "TLSv1.3" \in Word
    BY DEF Word
  <2>3. /\ k \in [left : Int, rejected : SUBSET Word, reachable : BOOLEAN, protocol : Word]
        /\ k.left = h.left /\ k.rejected = h.rejected /\ k.protocol = "TLSv1.3"
    BY <1>1, <2>1, <2>2
  <2>4. k \in Host
    BY <2>3 DEF Host
  <2>5. k.protocol \notin {"TLSv1", "TLSv1.1"}
    BY <2>3
  <2> QED BY <1>2, <1>3, <1>4, <2>4, <2>5, InTls
<1>5. CASE f.rule # "deprecated-tls"
  <2>1. k = [h EXCEPT !.rejected = {}, !.left = Validity]
    BY <1>5 DEF TlsRemedies
  <2>2. Validity \in Int /\ {} \in SUBSET Word
    BY DEF Validity
  <2>6. /\ k \in [left : Int, rejected : SUBSET Word, reachable : BOOLEAN, protocol : Word]
        /\ k.left = Validity /\ k.rejected = {}
    BY <1>1, <2>1, <2>2
  <2>3. k \in Host
    BY <2>6 DEF Host, Validity
  <2>4. DaysLeft(k, offset) \in Int /\ DaysLeft(k, offset) >= ExpiringSoon
    BY <2>6, <2>3, DaysAre DEF Validity, HalfDays, ExpiringSoon
  <2>5. ~(DaysLeft(k, offset) < 0) /\ ~(DaysLeft(k, offset) < ExpiringSoon)
    BY <2>4 DEF ExpiringSoon
  <2> QED BY <1>2, <1>5, <2>6, <2>3, <2>5, InTls
<1> QED BY <1>4, <1>5

LEMMA FirstOfUnique ==
  ASSUME NEW Records, NEW records \in Seq(Records), NEW kind, NEW at \in DOMAIN records,
         records[at].kind = kind,
         \A j \in DOMAIN records : j < at => records[j].kind # kind
  PROVE  FirstOf(kind, records) = at
<1> DEFINE to == FirstOf(kind, records)
<1>1. /\ to = 0 => \A i \in DOMAIN records : records[i].kind # kind
      /\ to # 0 => /\ to \in DOMAIN records /\ records[to].kind = kind
                   /\ \A j \in DOMAIN records : j < to => records[j].kind # kind
  BY FirstOfIs
<1>2. DOMAIN records = 1..Len(records) /\ Len(records) \in Nat
  BY LenProperties
<1> HIDE DEF to
<1>3. to # 0 /\ ~(at < to) /\ ~(to < at) /\ to \in 1..Len(records) /\ at \in 1..Len(records)
  BY <1>1, <1>2
<1>4. to = at
  BY <1>2, <1>3
<1> QED BY <1>4 DEF to

(* DnsRemedies writes this out. *)
Put(records, kind, record) ==
  IF FirstOf(kind, records) = 0 THEN Append(records, record)
  ELSE [records EXCEPT ![FirstOf(kind, records)] = record]

(* A record that is put is the one that counts. *)
LEMMA RecordPut ==
  ASSUME NEW Records, NEW records \in Seq(Records), NEW kind, NEW record \in Records,
         record.kind = kind
  PROVE  LET new == Put(records, kind, record)
         IN  /\ new \in Seq(Records)
             /\ FirstOf(kind, new) # 0 /\ new[FirstOf(kind, new)] = record
<1> DEFINE at == FirstOf(kind, records)
           new == Put(records, kind, record)
<1>1. /\ at = 0 => \A i \in DOMAIN records : records[i].kind # kind
      /\ at # 0 => /\ at \in DOMAIN records /\ records[at].kind = kind
                   /\ \A j \in DOMAIN records : j < at => records[j].kind # kind
  BY FirstOfIs
<1>2. DOMAIN records = 1..Len(records) /\ Len(records) \in Nat
  BY LenProperties
<1>3. new = IF at = 0 THEN Append(records, record) ELSE [records EXCEPT ![at] = record]
  BY DEF Put
<1>4. /\ Append(records, record) \in Seq(Records)
      /\ Len(Append(records, record)) = Len(records) + 1
      /\ Append(records, record)[Len(records) + 1] = record
      /\ \A i \in 1..Len(records) : Append(records, record)[i] = records[i]
  BY AppendProperties
<1> HIDE DEF at, new
<1>5. CASE at = 0
  <2>1. /\ new \in Seq(Records) /\ Len(new) = Len(records) + 1
        /\ new[Len(records) + 1] = record
        /\ \A i \in 1..Len(records) : new[i] = records[i]
    BY <1>3, <1>4, <1>5
  <2>2. DOMAIN new = 1..(Len(records) + 1)
    BY <2>1, LenProperties
  <2>3. /\ Len(records) + 1 \in DOMAIN new /\ new[Len(records) + 1].kind = kind
        /\ \A j \in DOMAIN new : j < Len(records) + 1 => new[j].kind # kind
    BY <1>1, <1>2, <1>5, <2>1, <2>2
  <2>4. FirstOf(kind, new) = Len(records) + 1
    BY <2>1, <2>3, FirstOfUnique
  <2> QED BY <1>2, <2>1, <2>4 DEF new
<1>6. CASE at # 0
  <2>1. at \in 1..Len(records)
    BY <1>1, <1>2, <1>6
  <2>2. [records EXCEPT ![at] = record] \in Seq(Records)
    BY <2>1, ExceptSeq
  <2>3. new = [records EXCEPT ![at] = record]
    BY <1>3, <1>6
  <2>4. /\ new \in Seq(Records) /\ DOMAIN new = DOMAIN records /\ new[at] = record
        /\ \A i \in DOMAIN records : i # at => new[i] = records[i]
    BY <1>2, <2>1, <2>2, <2>3
  <2>5. at \in DOMAIN new /\ new[at].kind = kind
        /\ \A j \in DOMAIN new : j < at => new[j].kind # kind
    BY <1>1, <1>2, <1>6, <2>1, <2>4
  <2>6. FirstOf(kind, new) = at
    BY <2>4, <2>5, FirstOfUnique
  <2> QED BY <1>6, <2>4, <2>6 DEF new
<1> QED BY <1>5, <1>6

LEMMA DnsNames ==
  /\ Say("spf-allow-all", "high").rule = "spf-allow-all"
  /\ Say("missing-spf", "medium").rule = "missing-spf"
  /\ Say("missing-dmarc", "medium").rule = "missing-dmarc"
  /\ Say("dmarc-policy-none", "medium").rule = "dmarc-policy-none"
  /\ Say("missing-caa", "low").rule = "missing-caa"
BY DEF Say

(* A stricter record leaves nothing to say of its kind. *)
LEMMA DnsPays ==
  ASSUME NEW d \in Dns, NEW f \in DnsFindings(d), NEW e \in DnsRemedies(f, d)
  PROVE  e \in Dns /\ f \notin DnsFindings(e) /\ DnsFindings(e) \subseteq DnsFindings(d)
<1> DEFINE Texts == [kind : Word \ {"spf"}] \cup [kind : {"spf"}, terms : SUBSET Word]
           Policies == [kind : Word \ {"dmarc"}] \cup [kind : {"dmarc"}, policy : Word]
           Authorities == [kind : Word]
<1>1. \A l : DnsFindings(l) = SpfFindings(l.txt) \cup DmarcFindings(l.dmarc) \cup CaaFindings(l.caa)
  BY DEF DnsFindings
<1>2. Spf \in Texts /\ Dmarc \in Policies /\ Caa \in Authorities
      /\ Spf.kind = "spf" /\ Spf.terms = {"-all"} /\ Dmarc.kind = "dmarc" /\ Dmarc.policy = "reject"
  BY DEF Spf, Dmarc, Caa, Word
<1>3. Dns = [txt : Lookup(Texts), dmarc : Lookup(Policies), caa : Lookup(Authorities)]
  BY DEF Dns
<1> HIDE DEF Texts, Policies, Authorities
<1>4. CASE f \in SpfFindings(d.txt)
  <2>1. f.rule \in {"missing-spf", "spf-allow-all"}
    BY <1>4, InSpf, DnsNames
  <2> DEFINE new == Put(d.txt.records, "spf", Spf)
  <2>2. e = [d EXCEPT !.txt.records = new]
    BY <1>3, <2>1 DEF DnsRemedies, Lookup, Put
  <2>3. d.txt.records \in Seq(Texts) /\ d.txt.state \in Word
    BY <1>3 DEF Lookup
  <2>4. /\ new \in Seq(Texts)
        /\ FirstOf("spf", new) # 0 /\ new[FirstOf("spf", new)] = Spf
    BY <1>2, <2>3, RecordPut
  <2> HIDE DEF new
  <2>5. e \in Dns /\ e.txt.records = new /\ e.dmarc = d.dmarc /\ e.caa = d.caa
    BY <1>3, <2>2, <2>4 DEF Lookup
  <2>6. SpfFindings(e.txt) = {}
    BY <1>2, <2>4, <2>5, InSpf
  <2>7. f \notin DmarcFindings(d.dmarc) /\ f \notin CaaFindings(d.caa)
    BY <2>1, InDmarc, InCaa, DnsNames
  <2> QED BY <1>1, <2>5, <2>6, <2>7
<1>5. CASE f \in DmarcFindings(d.dmarc)
  <2>1. f.rule \in {"missing-dmarc", "dmarc-policy-none"}
    BY <1>5, InDmarc, DnsNames
  <2> DEFINE new == Put(d.dmarc.records, "dmarc", Dmarc)
  <2>2. e = [d EXCEPT !.dmarc.records = new]
    BY <1>3, <2>1 DEF DnsRemedies, Lookup, Put
  <2>3. d.dmarc.records \in Seq(Policies) /\ d.dmarc.state \in Word
    BY <1>3 DEF Lookup
  <2>4. /\ new \in Seq(Policies)
        /\ FirstOf("dmarc", new) # 0 /\ new[FirstOf("dmarc", new)] = Dmarc
    BY <1>2, <2>3, RecordPut
  <2> HIDE DEF new
  <2>5. e \in Dns /\ e.dmarc.records = new /\ e.txt = d.txt /\ e.caa = d.caa
    BY <1>3, <2>2, <2>4 DEF Lookup
  <2>6. DmarcFindings(e.dmarc) = {}
    BY <1>2, <2>4, <2>5, InDmarc
  <2>7. f \notin SpfFindings(d.txt) /\ f \notin CaaFindings(d.caa)
    BY <2>1, InSpf, InCaa, DnsNames
  <2> QED BY <1>1, <2>5, <2>6, <2>7
<1>6. CASE f \in CaaFindings(d.caa)
  <2>1. f.rule = "missing-caa"
    BY <1>6, InCaa, DnsNames
  <2>2. e = [d EXCEPT !.caa.records = <<Caa>>]
    BY <2>1 DEF DnsRemedies
  <2>3. <<Caa>> \in Seq(Authorities) /\ <<Caa>> # <<>>
    BY <1>2
  <2>5. e \in Dns /\ e.caa.records = <<Caa>> /\ e.txt = d.txt /\ e.dmarc = d.dmarc
    BY <1>3, <2>2, <2>3 DEF Lookup
  <2>6. CaaFindings(e.caa) = {}
    BY <2>3, <2>5, InCaa
  <2>7. f \notin SpfFindings(d.txt) /\ f \notin DmarcFindings(d.dmarc)
    BY <2>1, InSpf, InDmarc, DnsNames
  <2> QED BY <1>1, <2>5, <2>6, <2>7
<1> QED BY <1>1, <1>4, <1>5, <1>6


-----------------------------------------------------------------------------
(* What is found is finite, and of the severities that scoring.py knows.     *)
Rated(found) == IsFiniteSet(found) /\ \A x \in found : x.severity \in DOMAIN Penalty

LEMMA PenaltyIs ==
  /\ DOMAIN Penalty = {"critical", "high", "medium", "low", "info"}
  /\ Penalty["critical"] = 100 /\ Penalty["high"] = 40 /\ Penalty["medium"] = 15
  /\ Penalty["low"] = 5 /\ Penalty["info"] = 0
BY DEF Penalty

LEMMA WhenRated ==
  ASSUME NEW condition, NEW rule, NEW severity \in DOMAIN Penalty
  PROVE  Rated(When(condition, rule, severity))
<1>1. CASE condition
  <2>1. When(condition, rule, severity) = {Finding(rule, severity, "")}
    BY <1>1 DEF When
  <2>2. Finding(rule, severity, "").severity = severity
    BY DEF Finding
  <2> QED BY <2>1, <2>2, FS_Singleton DEF Rated
<1>2. CASE ~condition
  <2>1. When(condition, rule, severity) = {}
    BY <1>2 DEF When
  <2> QED BY <2>1, FS_EmptySet DEF Rated
<1> QED BY <1>1, <1>2

LEMMA BothRated ==
  ASSUME NEW A, NEW B, Rated(A), Rated(B) PROVE Rated(A \cup B)
BY FS_Union DEF Rated

LEMMA ManyRated ==
  ASSUME NEW S, IsFiniteSet(S), NEW T, NEW F \in Surjection(S, T), \A x \in S : Rated(F[x])
  PROVE  Rated(UNION T)
<1>1. IsFiniteSet(T)
  BY FS_Surjection
<1>2. \A found \in T : \E x \in S : found = F[x]
  BY DEF Surjection
<1>3. \A found \in T : IsFiniteSet(found)
  BY <1>2 DEF Rated
<1>4. \A found \in T : \A x \in found : x.severity \in DOMAIN Penalty
  BY <1>2 DEF Rated
<1>5. IsFiniteSet(UNION T)
  BY <1>1, <1>3, FS_UNION
<1> QED BY <1>4, <1>5 DEF Rated

LEMMA HeaderIsFinite == ASSUME NEW V, NEW h \in Header(V) PROVE IsFiniteSet(h)
<1>1. h = {} \/ \E v : h = {v}
  BY DEF Header
<1> QED BY <1>1, FS_EmptySet, FS_Singleton


LEMMA QualityRated == ASSUME NEW csp PROVE Rated(CspQualityFindings(csp))
<1> DEFINE inline == "'unsafe-inline'" \in EffectiveScriptSrc(ParseCsp(csp))
           eval == "'unsafe-eval'" \in SourcesOr(ParseCsp(csp), "script-src")
           script == TooBroad(EffectiveScriptSrc(ParseCsp(csp)))
           object == TooBroad(EffectiveObjectSrc(ParseCsp(csp)))
           base == "base-uri" \notin DOMAIN ParseCsp(csp)
<1>1. CspQualityFindings(csp) = When(inline, "csp-unsafe-inline", "medium")
        \cup When(eval, "csp-unsafe-eval", "medium")
        \cup When(script, "csp-broad-script-src", "medium")
        \cup When(object, "csp-broad-object-src", "low")
        \cup When(base, "csp-missing-base-uri", "low")
  BY DEF CspQualityFindings
<1> HIDE DEF inline, eval, script, object, base
<1>2. /\ Rated(When(inline, "csp-unsafe-inline", "medium"))
      /\ Rated(When(eval, "csp-unsafe-eval", "medium"))
      /\ Rated(When(script, "csp-broad-script-src", "medium"))
      /\ Rated(When(object, "csp-broad-object-src", "low"))
      /\ Rated(When(base, "csp-missing-base-uri", "low"))
  BY PenaltyIs, WhenRated
<1> QED BY <1>1, <1>2, BothRated

LEMMA HeadersRated ==
  ASSUME NEW h \in Headers, NEW config PROVE Rated(HeaderFindings(h, config))
<1>1. /\ IsFiniteSet(h.hsts) /\ IsFiniteSet(h.csp)
      /\ IsFiniteSet(h.disclosing \cap config.banned)
  <2>1. h.hsts \in Header(Hsts) /\ h.csp \in Header(Csp) /\ IsFiniteSet(h.disclosing)
    BY DEF Headers, Finite
  <2> QED BY <2>1, HeaderIsFinite, FS_Subset
<1>2. Rated(HstsFindings(h, config))
  <2> DEFINE Of(parts) ==
        When(MaxAge(parts) < config.minMaxAge, "weak-hsts-max-age", "medium")
        \cup When(config.includeSubdomains /\
                    \A part \in ToSet(parts) : part.name # "includesubdomains",
                  "hsts-no-subdomains", "low")
             F == [parts \in h.hsts |-> Of(parts)]
             T == {F[parts] : parts \in h.hsts}
             missing == When(Absent(h.hsts), "missing-hsts", "high")
  <2>1. HstsFindings(h, config) = missing \cup UNION T
    BY DEF HstsFindings
  <2>2. \A parts : Rated(Of(parts))
    BY PenaltyIs, WhenRated, BothRated
  <2>3. Rated(missing)
    BY PenaltyIs, WhenRated
  <2>4. F \in Surjection(h.hsts, T) /\ \A parts \in h.hsts : Rated(F[parts])
    BY <2>2 DEF Surjection
  <2> HIDE DEF F, T, missing
  <2>5. Rated(UNION T)
    BY <1>1, <2>4, ManyRated
  <2> QED BY <2>1, <2>3, <2>5, BothRated
<1>3. Rated(CspFindings(h, config))
  <2> DEFINE F == [csp \in h.csp |-> CspQualityFindings(csp)]
             T == {F[csp] : csp \in h.csp}
             missing == When(Absent(h.csp) /\ "content-security-policy" \in config.required,
                             "missing-csp", "medium")
  <2>1. CspFindings(h, config) = missing \cup UNION T
    BY DEF CspFindings
  <2>2. Rated(missing)
    BY PenaltyIs, WhenRated
  <2>3. F \in Surjection(h.csp, T) /\ \A csp \in h.csp : Rated(F[csp])
    BY QualityRated DEF Surjection
  <2> HIDE DEF F, T, missing
  <2>4. Rated(UNION T)
    BY <1>1, <2>3, ManyRated
  <2> QED BY <2>1, <2>2, <2>4, BothRated
<1>4. Rated(ReferrerFindings(h, config))
  BY PenaltyIs, WhenRated, BothRated DEF ReferrerFindings
<1>5. Rated(PermissionsFindings(h, config))
  BY PenaltyIs, WhenRated DEF PermissionsFindings
<1>6. Rated(ClickjackingFindings(h))
  BY PenaltyIs, WhenRated, BothRated DEF ClickjackingFindings
<1>7. Rated(CoopFindings(h))
  BY PenaltyIs, WhenRated DEF CoopFindings
<1>8. Rated(XctoFindings(h))
  BY PenaltyIs, WhenRated, BothRated DEF XctoFindings
<1>9. Rated(LeakedFindings(h, config))
  <2> DEFINE S == h.disclosing \cap config.banned
             F == [banned \in S |-> Finding("leaked", "info", banned)]
  <2>1. LeakedFindings(h, config) = {F[banned] : banned \in S}
    BY DEF LeakedFindings
  <2> DEFINE T == {F[banned] : banned \in S}
  <2>2. F \in [S -> T] /\ \A banned \in S : F[banned].severity = "info"
    BY DEF Finding
  <2>4. IsFiniteSet(S)
    BY <1>1
  <2> HIDE DEF S, F, T
  <2>3. IsFiniteSet({F[banned] : banned \in S})
    BY <2>2, <2>4, FiniteImage DEF Finite
  <2> QED BY <2>1, <2>2, <2>3, PenaltyIs DEF Rated
<1>10. HeaderFindings(h, config) =
         HstsFindings(h, config) \cup ReferrerFindings(h, config)
         \cup PermissionsFindings(h, config) \cup CspFindings(h, config)
         \cup ClickjackingFindings(h) \cup CoopFindings(h) \cup XctoFindings(h)
         \cup LeakedFindings(h, config)
  BY HeaderParts
<1> QED BY <1>2, <1>3, <1>4, <1>5, <1>6, <1>7, <1>8, <1>9, <1>10, BothRated


(* Of the four things that are said of a cookie. *)
CookieSays(p, cookie) ==
  {Finding(f[1], f[2], cookie.name) : f \in {f \in
        {<<"cookie-missing-secure", "medium", p.url.scheme = "https" /\ ~cookie.secure>>,
         <<"cookie-missing-httponly", "low", ~cookie.httponly>>,
         <<"cookie-missing-samesite", "low", cookie.samesite = {}>>,
         <<"cookie-samesite-none-without-secure", "medium",
           cookie.samesite = {"none"} /\ ~cookie.secure>>} : f[3]}}

LEMMA CookieRated == ASSUME NEW p, NEW cookie PROVE Rated(CookieSays(p, cookie))
<1> DEFINE All == {Finding("cookie-missing-secure", "medium", cookie.name),
                   Finding("cookie-missing-httponly", "low", cookie.name),
                   Finding("cookie-missing-samesite", "low", cookie.name),
                   Finding("cookie-samesite-none-without-secure", "medium", cookie.name)}
<1>1. CookieSays(p, cookie) \subseteq All
  BY DEF CookieSays
<1>2. IsFiniteSet(All)
  <2> DEFINE a == Finding("cookie-missing-secure", "medium", cookie.name)
             b == Finding("cookie-missing-httponly", "low", cookie.name)
             c == Finding("cookie-missing-samesite", "low", cookie.name)
             d == Finding("cookie-samesite-none-without-secure", "medium", cookie.name)
  <2> HIDE DEF a, b, c, d
  <2>1. IsFiniteSet({a} \cup {b} \cup {c} \cup {d})
    BY FS_Singleton, FS_Union
  <2>2. {a, b, c, d} = {a} \cup {b} \cup {c} \cup {d}
    OBVIOUS
  <2>3. All = {a, b, c, d}
    BY DEF a, b, c, d
  <2> QED BY <2>1, <2>2, <2>3
<1>3. \A x \in All : x.severity \in DOMAIN Penalty
  BY PenaltyIs DEF Finding
<1> HIDE DEF All
<1> QED BY <1>1, <1>2, <1>3, FS_Subset DEF Rated

LEMMA JarRated == ASSUME NEW p \in Page PROVE Rated(CookieFindings(p))
<1> DEFINE S == {c \in p.cookies : c.name # ""}
           F == [cookie \in S |-> CookieSays(p, cookie)]
           T == {F[cookie] : cookie \in S}
           plain == When(p.url.scheme = "http" /\ p.jar # {}, "cookies-over-http", "high")
<1>1. CookieFindings(p) = plain \cup UNION T
  <2>1. CookieFindings(p) = plain \cup UNION {CookieSays(p, cookie) : cookie \in S}
    BY DEF CookieFindings, CookieSays
  <2>2. {CookieSays(p, cookie) : cookie \in S} = T
    OBVIOUS
  <2> QED BY <2>1, <2>2
<1>2. IsFiniteSet(S)
  <2>1. IsFiniteSet(p.cookies) /\ S \subseteq p.cookies
    BY DEF Page, Finite
  <2> QED BY <2>1, FS_Subset
<1>3. Rated(plain)
  BY PenaltyIs, WhenRated
<1>4. F \in Surjection(S, T) /\ \A cookie \in S : Rated(F[cookie])
  BY CookieRated DEF Surjection
<1> HIDE DEF S, F, T, plain
<1>5. Rated(UNION T)
  BY <1>2, <1>4, ManyRated
<1> QED BY <1>1, <1>3, <1>5, BothRated

LEMMA ImageRated ==
  ASSUME NEW S, IsFiniteSet(S), NEW T, NEW F \in [S -> T],
         \A x \in S : F[x].severity \in DOMAIN Penalty
  PROVE  Rated({F[x] : x \in S})
<1>1. IsFiniteSet({F[x] : x \in S})
  BY FiniteImage DEF Finite
<1> QED BY <1>1 DEF Rated

LEMMA BodyRated == ASSUME NEW p \in Page PROVE Rated(SriFindings(p)) /\ Rated(ContentFindings(p))
<1>1. IsFiniteSet(p.tags) /\ IsFiniteSet(p.libraries) /\ IsFiniteSet(p.body)
  BY DEF Page, Finite
<1>2. Rated(SriFindings(p))
  <2> DEFINE S == {tag \in p.tags : /\ p.html /\ tag.kind \in {"script", "stylesheet"}
                                    /\ tag.external /\ ~tag.integrity}
             F == [tag \in S |-> Finding("missing-sri", "medium", tag.src)]
             T == {F[tag] : tag \in S}
  <2>1. SriFindings(p) = {F[tag] : tag \in S}
    BY DEF SriFindings
  <2>2. F \in [S -> T] /\ \A tag \in S : F[tag].severity \in DOMAIN Penalty
    BY PenaltyIs DEF Finding
  <2>3. IsFiniteSet(S)
    BY <1>1, FS_Subset
  <2> HIDE DEF S, F, T
  <2>4. Rated({F[tag] : tag \in S})
    BY <2>2, <2>3, ImageRated
  <2> QED BY <2>1, <2>4
<1>3. Rated(ContentFindings(p))
  <2> DEFINE S == DOMAIN LeakSeverity \cap p.body
             F == [name \in S |-> Finding("leak", LeakSeverity[name], name)]
             T == {F[name] : name \in S}
             L == {l \in p.libraries : p.html}
             G == [lib \in L |-> Finding("vuln-js", "medium", lib)]
             U == {G[lib] : lib \in L}
             map == When(p.html /\ "sourceMappingURL=" \in p.body, "sourcemap-exposed", "info")
  <2>1. ContentFindings(p) = {F[name] : name \in S} \cup {G[lib] : lib \in L} \cup map
    BY DEF ContentFindings, LeakFindings, JavascriptFindings
  <2>2. F \in [S -> T] /\ \A name \in S : F[name].severity \in DOMAIN Penalty
    BY PenaltyIs DEF Finding, LeakSeverity
  <2>3. G \in [L -> U] /\ \A lib \in L : G[lib].severity \in DOMAIN Penalty
    BY PenaltyIs DEF Finding
  <2>4. IsFiniteSet(S) /\ IsFiniteSet(L)
    BY <1>1, FS_Subset
  <2>5. Rated(map)
    BY PenaltyIs, WhenRated
  <2> HIDE DEF S, F, T, L, G, U, map
  <2>6. Rated({F[name] : name \in S}) /\ Rated({G[lib] : lib \in L})
    BY <2>2, <2>3, <2>4, ImageRated
  <2> QED BY <2>1, <2>5, <2>6, BothRated
<1> QED BY <1>2, <1>3

LEMMA PageRated ==
  ASSUME NEW p \in Page, NEW config PROVE Rated(PageFindings(p, config))
<1>1. p.headers \in Headers
  BY DEF Page
<1>2. Rated(CorsFindings(p))
  BY PenaltyIs, WhenRated, BothRated DEF CorsFindings
<1>3. Rated(HttpsFindings(p))
  BY PenaltyIs, WhenRated, BothRated DEF HttpsFindings
<1>4. Rated(ExposureFindings(p))
  <2> DEFINE env == p.status = 200 /\ p.url.path = "/.env" /\ "key=value" \in p.body
             git == p.status = 200 /\ p.url.path = "/.git/HEAD" /\ "ref: refs/" \in p.body
  <2>1. ExposureFindings(p) = When(env, "conf-env-exposed", "high")
                              \cup When(git, "git-repo-exposed", "high")
    BY DEF ExposureFindings
  <2> HIDE DEF env, git
  <2> QED BY <2>1, PenaltyIs, WhenRated, BothRated
<1>5. Rated(SecurityTxtFindings(p))
  <2> DEFINE Has(condition, rule, severity) ==
               When(p.url.path = "/.well-known/security.txt" /\ condition, rule, severity)
             missing == Has(~(p.status < 400), "sectxt-missing", "low")
             contact == Has(p.status < 400 /\ "Contact:" \notin p.body,
                            "sectxt-no-contact", "high")
             expires == Has(p.status < 400 /\ "Expires:" \notin p.body,
                            "sectxt-no-expires", "medium")
  <2>1. SecurityTxtFindings(p) = missing \cup contact \cup expires
    BY DEF SecurityTxtFindings
  <2>2. Rated(missing)
    BY PenaltyIs, WhenRated
  <2>3. Rated(contact)
    BY PenaltyIs, WhenRated
  <2>4. Rated(expires)
    BY PenaltyIs, WhenRated
  <2> HIDE DEF missing, contact, expires
  <2> QED BY <2>1, <2>2, <2>3, <2>4, BothRated
<1> QED BY <1>1, <1>2, <1>3, <1>4, <1>5, HeadersRated, JarRated, BodyRated, BothRated DEF PageFindings

LEMMA HostRated ==
  ASSUME NEW url, NEW h, NEW offset, NEW d
  PROVE  Rated(TlsFindings(url, h, offset)) /\ Rated(DnsFindings(d))
<1>1. Rated({})
  BY FS_EmptySet DEF Rated
<1>2. Rated(TlsFindings(url, h, offset))
  BY <1>1, PenaltyIs, WhenRated, BothRated DEF TlsFindings, VerificationFailed, ExpiryFindings
<1>3. Rated(SpfFindings(d.txt)) /\ Rated(DmarcFindings(d.dmarc)) /\ Rated(CaaFindings(d.caa))
  BY PenaltyIs, WhenRated, BothRated DEF SpfFindings, DmarcFindings, CaaFindings
<1> QED BY <1>2, <1>3, BothRated DEF DnsFindings


-----------------------------------------------------------------------------
(* What a set of findings costs, by severity. *)
Of(found, s) == {x \in found : x.severity = s}
Number(found, s) == Cardinality(Of(found, s))

LEMMA LostCounted ==
  ASSUME NEW found
  PROVE  Lost([f \in found |-> f.severity]) =
           100 * Number(found, "critical") + 40 * Number(found, "high")
           + 15 * Number(found, "medium") + 5 * Number(found, "low") + 0 * Number(found, "info")
<1> DEFINE severity == [f \in found |-> f.severity]
<1>1. \A s : {f \in DOMAIN severity : severity[f] = s} = Of(found, s)
  BY DEF Of
<1>2. Lost(severity) =
        Penalty["critical"] * Cardinality({f \in DOMAIN severity : severity[f] = "critical"})
        + Penalty["high"] * Cardinality({f \in DOMAIN severity : severity[f] = "high"})
        + Penalty["medium"] * Cardinality({f \in DOMAIN severity : severity[f] = "medium"})
        + Penalty["low"] * Cardinality({f \in DOMAIN severity : severity[f] = "low"})
        + Penalty["info"] * Cardinality({f \in DOMAIN severity : severity[f] = "info"})
  BY DEF Lost
<1> HIDE DEF severity
<1>3. Lost(severity) =
        Penalty["critical"] * Number(found, "critical") + Penalty["high"] * Number(found, "high")
        + Penalty["medium"] * Number(found, "medium") + Penalty["low"] * Number(found, "low")
        + Penalty["info"] * Number(found, "info")
  BY <1>1, <1>2 DEF Number
<1>4. Lost(severity) =
        100 * Number(found, "critical") + 40 * Number(found, "high")
        + 15 * Number(found, "medium") + 5 * Number(found, "low") + 0 * Number(found, "info")
  BY <1>3, PenaltyIs
<1> QED BY <1>4 DEF severity

(* One for another: of the severity of what went there is one less, and of   *)
(* that of what came one more at most.                                       *)
LEMMA NumberTraded ==
  ASSUME NEW A, IsFiniteSet(A), NEW B, NEW f \in A, f \notin B, NEW g, B \subseteq A \cup {g},
         NEW s
  PROVE  /\ Number(A, s) \in Nat /\ Number(B, s) \in Nat
         /\ Number(B, s) <= Number(A, s) - (IF f.severity = s THEN 1 ELSE 0)
                                         + (IF g.severity = s THEN 1 ELSE 0)
<1> DEFINE Left == Of(A, s) \ {f}
           Right == IF g.severity = s THEN Left \cup {g} ELSE Left
<1>1. IsFiniteSet(Of(A, s)) /\ Number(A, s) \in Nat
  BY FS_Subset, FS_CardinalityType DEF Of, Number
<1>2. IsFiniteSet(Left) /\ Cardinality(Left) \in Nat
      /\ Cardinality(Left) = IF f.severity = s THEN Number(A, s) - 1 ELSE Number(A, s)
  BY <1>1, FS_RemoveElement, FS_CardinalityType DEF Of, Number
<1> HIDE DEF Left
<1>3. /\ IsFiniteSet(Right)
      /\ Cardinality(Right) <= Cardinality(Left) + (IF g.severity = s THEN 1 ELSE 0)
  <2>1. IsFiniteSet(Left \cup {g})
        /\ Cardinality(Left \cup {g}) =
             IF g \in Left THEN Cardinality(Left) ELSE Cardinality(Left) + 1
    BY <1>2, FS_AddElement
  <2>2. CASE g.severity = s
    BY <1>2, <2>1, <2>2
  <2>3. CASE g.severity # s
    BY <1>2, <2>3
  <2> QED BY <2>2, <2>3
<1>4. Of(B, s) \subseteq Right
  BY DEF Of, Left
<1> HIDE DEF Right
<1>5. IsFiniteSet(Of(B, s)) /\ Number(B, s) \in Nat /\ Number(B, s) <= Cardinality(Right)
  BY <1>3, <1>4, FS_Subset, FS_CardinalityType DEF Number
<1>6. Cardinality(Right) \in Nat
  BY <1>3, FS_CardinalityType
<1> QED BY <1>1, <1>2, <1>3, <1>5, <1>6

LEMMA ScoreNoLower ==
  ASSUME NEW A, NEW B, NEW f \in A, Rated(A), Rated(B), Trades(A, B, f)
  PROVE  ScoreOf([x \in B |-> x.severity]) >= ScoreOf([x \in A |-> x.severity])
<1>1. f.severity \in DOMAIN Penalty
  BY DEF Rated
<1>2. PICK g : /\ B \subseteq A \cup {g} /\ g.severity \in DOMAIN Penalty
               /\ Penalty[g.severity] <= Penalty[f.severity]
  <2>1. CASE B \subseteq A
    <3>1. B \subseteq A \cup {f} /\ Penalty[f.severity] <= Penalty[f.severity]
      BY <1>1, <2>1, PenaltyIs
    <3> QED BY <1>1, <3>1
  <2>2. CASE ~(B \subseteq A)
    <3>1. PICK g : B \subseteq A \cup {g} /\ Penalty[g.severity] <= Penalty[f.severity]
      BY <2>2 DEF Trades
    <3>2. g \in B
      BY <2>2, <3>1
    <3> QED BY <3>1, <3>2 DEF Rated
  <2> QED BY <2>1, <2>2
<1>3. \A s : /\ Number(A, s) \in Nat /\ Number(B, s) \in Nat
             /\ Number(B, s) <= Number(A, s) - (IF f.severity = s THEN 1 ELSE 0)
                                             + (IF g.severity = s THEN 1 ELSE 0)
  BY <1>2, NumberTraded DEF Rated, Trades
<1> DEFINE Sum(S) == 100 * Number(S, "critical") + 40 * Number(S, "high")
                     + 15 * Number(S, "medium") + 5 * Number(S, "low") + 0 * Number(S, "info")
           Minus(s) == IF f.severity = s THEN 1 ELSE 0
           Plus(s) == IF g.severity = s THEN 1 ELSE 0
<1>4. /\ 100 * Minus("critical") + 40 * Minus("high") + 15 * Minus("medium") + 5 * Minus("low")
           = Penalty[f.severity]
      /\ 100 * Plus("critical") + 40 * Plus("high") + 15 * Plus("medium") + 5 * Plus("low")
           = Penalty[g.severity]
  BY <1>1, <1>2, PenaltyIs
<1>5. /\ Number(B, "critical") <= Number(A, "critical") - Minus("critical") + Plus("critical")
      /\ Number(B, "high") <= Number(A, "high") - Minus("high") + Plus("high")
      /\ Number(B, "medium") <= Number(A, "medium") - Minus("medium") + Plus("medium")
      /\ Number(B, "low") <= Number(A, "low") - Minus("low") + Plus("low")
  BY <1>3
<1>6. \A s : Minus(s) \in Int /\ Plus(s) \in Int
  OBVIOUS
<1>7. /\ Number(A, "critical") \in Nat /\ Number(B, "critical") \in Nat
      /\ Number(A, "high") \in Nat /\ Number(B, "high") \in Nat
      /\ Number(A, "medium") \in Nat /\ Number(B, "medium") \in Nat
      /\ Number(A, "low") \in Nat /\ Number(B, "low") \in Nat
      /\ Number(A, "info") \in Nat /\ Number(B, "info") \in Nat
  BY <1>3
<1>8. /\ Minus("critical") \in Int /\ Plus("critical") \in Int
      /\ Minus("high") \in Int /\ Plus("high") \in Int
      /\ Minus("medium") \in Int /\ Plus("medium") \in Int
      /\ Minus("low") \in Int /\ Plus("low") \in Int
  BY <1>6
<1> HIDE DEF Minus, Plus
<1>9. Sum(A) \in Int /\ Sum(B) \in Int /\ Sum(B) <= Sum(A)
  BY <1>2, <1>4, <1>5, <1>7, <1>8
<1>10. /\ Lost([x \in A |-> x.severity]) = Sum(A) /\ Lost([x \in B |-> x.severity]) = Sum(B)
  BY LostCounted
<1> HIDE DEF Sum
<1> QED BY <1>9, <1>10 DEF ScoreOf


-----------------------------------------------------------------------------
(* The findings of a page, of its certificate and of its DNS have no rule in *)
(* common.                                                                   *)
DnsRules == {"missing-spf", "spf-allow-all", "missing-dmarc", "dmarc-policy-none", "missing-caa"}
TlsRules == CertRules \cup {"deprecated-tls"}
PageRules == HeaderRules \cup JarRules \cup HttpsRules \cup ExposureRules \cup SecurityTxtRules
             \cup {"missing-sri"} \cup ContentRules \cup CorsRules

LEMMA GroupsApart ==
  PageRules \cap TlsRules = {} /\ PageRules \cap DnsRules = {} /\ TlsRules \cap DnsRules = {}
<1> USE DEF PageRules, TlsRules, DnsRules, CertRules, HeaderRules, HstsRules, ReferrerRules,
            CspRules, QualityRules, ClickjackingRules, OtherHeaderRules, CookieRules, JarRules,
            HttpsRules, ExposureRules, SecurityTxtRules, ContentRules, CorsRules
<1>1. PageRules \cap TlsRules = {}
  OBVIOUS
<1>2. PageRules \cap DnsRules = {}
  OBVIOUS
<1>3. TlsRules \cap DnsRules = {}
  OBVIOUS
<1> QED BY <1>1, <1>2, <1>3

LEMMA GroupsOfRules ==
  ASSUME NEW p, NEW config, NEW url, NEW h, NEW offset, NEW d, NEW x
  PROVE  /\ x \in PageFindings(p, config) => x.rule \in PageRules
         /\ x \in TlsFindings(url, h, offset) => x.rule \in TlsRules
         /\ x \in DnsFindings(d) => x.rule \in DnsRules
<1>1. x \in PageFindings(p, config) => x.rule \in PageRules
  <2>1. x \in HeaderFindings(p.headers, config) => x.rule \in HeaderRules
    BY HeaderRulesAre
  <2> QED BY <2>1, PageRulesAre DEF PageFindings, PageRules
<1>2. x \in TlsFindings(url, h, offset) => x.rule \in TlsRules
  <2>1. /\ Say("cert-expired", "high").rule = "cert-expired"
        /\ Say("cert-expiring-soon", "medium").rule = "cert-expiring-soon"
        /\ Say("deprecated-tls", "high").rule = "deprecated-tls"
        /\ \A rule : Say(rule, "high").rule = rule
    BY DEF Say
  <2> QED BY <2>1, InTls, Classified DEF TlsRules, CertRules
<1>3. x \in DnsFindings(d) => x.rule \in DnsRules
  <2>1. x \in SpfFindings(d.txt) => x.rule \in DnsRules
    BY InSpf, DnsNames DEF DnsRules
  <2>2. x \in DmarcFindings(d.dmarc) => x.rule \in DnsRules
    BY InDmarc, DnsNames DEF DnsRules
  <2>3. x \in CaaFindings(d.caa) => x.rule \in DnsRules
    BY InCaa, DnsNames DEF DnsRules
  <2> QED BY <2>1, <2>2, <2>3 DEF DnsFindings
<1> QED BY <1>1, <1>2, <1>3


-----------------------------------------------------------------------------
LEMMA HostGroups ==
  ASSUME NEW x
  PROVE  /\ x \in OfPage => x.rule \in PageRules
         /\ x \in OfHost => x.rule \in TlsRules
         /\ x \in OfDns => x.rule \in DnsRules
BY GroupsOfRules DEF OfPage, OfHost, OfDns

(* Report is one of these. *)
Found(p, h, d, config, offset) ==
  PageFindings(p, config)
  \cup (IF p.probe THEN {} ELSE TlsFindings(p.url, h, offset))
  \cup (IF p.probe THEN {} ELSE DnsFindings(d))

LEMMA FoundRated ==
  ASSUME NEW p \in Page, NEW h, NEW d, NEW config, NEW offset
  PROVE  Rated(Found(p, h, d, config, offset))
<1>1. Rated({})
  BY FS_EmptySet DEF Rated
<1>2. Rated(PageFindings(p, config))
  BY PageRated
<1>3. Rated(IF p.probe THEN {} ELSE TlsFindings(p.url, h, offset))
      /\ Rated(IF p.probe THEN {} ELSE DnsFindings(d))
  BY <1>1, HostRated
<1> QED BY <1>2, <1>3, BothRated DEF Found

LEMMA ReportIs ==
  /\ Report = Found(page, host, dns, policy, zone)
  /\ Report' = Found(page', host', dns', policy', zone')
  /\ Score = ScoreOf([x \in Report |-> x.severity])
  /\ Score' = ScoreOf([x \in Report' |-> x.severity])
BY DEF Report, OfPage, OfHost, OfDns, Found, Score

(* In two states with the findings `part` and `rest`, trading in the part is *)
(* trading in the report.                                                    *)
LEMMA PartTraded ==
  ASSUME page \in Page, page' \in Page, NEW f, NEW part, NEW newpart, NEW rest,
         f \in part, f \notin rest, Trades(part, newpart, f),
         Report = part \cup rest, Report' = newpart \cup rest
  PROVE  f \notin Report' /\ Score' >= Score
<1>1. Trades(Report, Report', f)
  BY TradesIn
<1>2. Rated(Report) /\ Rated(Report')
  BY FoundRated, ReportIs
<1>3. ScoreOf([x \in Report' |-> x.severity]) >= ScoreOf([x \in Report |-> x.severity])
  BY <1>1, <1>2, ScoreNoLower
<1> QED BY <1>1, <1>3, ReportIs DEF Trades

(* Doing what a finding on the page says. *)
LEMMA PageRemedyPays ==
  ASSUME TypeOK, NEW f \in OfPage, page' \in PageRemedies(f, page, policy),
         UNCHANGED <<host, dns, policy, zone>>
  PROVE  /\ TypeOK'
         /\ f \notin Report'
         /\ \/ Score' >= Score
            \/ Uncovered
            \/ FirstCsp /\ f.rule \in ClickjackingRules
<1>1. page \in Page /\ policy \in Policy /\ f \in PageFindings(page, policy)
  BY DEF TypeOK, OfPage
<1>2. /\ page' \in Page /\ page'.probe = page.probe
      /\ page'.url = page.url \/ page.url.scheme = "http"
      /\ f \notin PageFindings(page', policy)
      /\ \/ Trades(PageFindings(page, policy), PageFindings(page', policy), f)
         \/ page.headers.csp = {} /\ page'.headers.csp # {} /\ f.rule \in ClickjackingRules
  BY <1>1, PagePays
<1>3. TypeOK'
  BY <1>2 DEF TypeOK
<1>4. OfPage = PageFindings(page, policy) /\ OfPage' = PageFindings(page', policy)
  BY DEF OfPage
<1>5. OfDns' = OfDns
  BY <1>2 DEF OfDns
<1>6. page'.url = page.url => OfHost' = OfHost
  BY <1>2 DEF OfHost
<1>7. page.url.scheme = "http" => OfHost = {}
  BY DEF OfHost, TlsFindings
<1>8. f.rule \in PageRules
  BY HostGroups
<1>9. f \notin OfHost' /\ f \notin OfDns'
  <2>1. OfHost' = IF page'.probe THEN {} ELSE TlsFindings(page'.url, host', zone')
    BY DEF OfHost
  <2>2. f \notin TlsFindings(page'.url, host', zone')
    BY <1>8, GroupsOfRules, GroupsApart
  <2> QED BY <1>5, <1>8, <2>1, <2>2, HostGroups, GroupsApart
<1>10. f \notin Report'
  BY <1>2, <1>4, <1>9 DEF Report
<1>11. CASE Uncovered \/ OfHost' # OfHost
  <2>1. OfHost' # OfHost => Uncovered
    BY <1>2, <1>6, <1>7 DEF Uncovered
  <2> QED BY <1>3, <1>10, <1>11, <2>1
<1>12. CASE /\ OfHost' = OfHost
            /\ Trades(PageFindings(page, policy), PageFindings(page', policy), f)
  <2>1. f \notin OfHost \cup OfDns
    BY <1>5, <1>9, <1>12
  <2>2. /\ Report = OfPage \cup (OfHost \cup OfDns)
        /\ Report' = OfPage' \cup (OfHost \cup OfDns)
    BY <1>5, <1>12 DEF Report
  <2>3. Trades(OfPage, OfPage', f)
    BY <1>4, <1>12
  <2>4. Score' >= Score
    BY <1>1, <1>2, <2>1, <2>2, <2>3, PartTraded
  <2> QED BY <1>3, <1>10, <2>4
<1>13. CASE page.headers.csp = {} /\ page'.headers.csp # {} /\ f.rule \in ClickjackingRules
  <2>1. FirstCsp
    BY <1>13 DEF FirstCsp, Absent
  <2> QED BY <1>3, <1>10, <1>13, <2>1
<1> QED BY <1>2, <1>11, <1>12, <1>13

(* Doing what one on the certificate or the protocol says. *)
LEMMA HostRemedyPays ==
  ASSUME TypeOK, NEW f \in OfHost, host' \in TlsRemedies(f, host),
         UNCHANGED <<page, dns, policy, zone>>
  PROVE  TypeOK' /\ f \notin Report' /\ (Score' >= Score \/ Uncovered)
<1>1. /\ page \in Page /\ host \in Host /\ zone \in -1..2 /\ ~page.probe
      /\ f \in TlsFindings(page.url, host, zone)
  BY DEF TypeOK, OfHost
<1>2. host' \in Host /\ f \notin TlsFindings(page.url, host', zone)
  BY <1>1, HostPays
<1>3. TypeOK'
  BY <1>2 DEF TypeOK
<1>4. OfPage' = OfPage /\ OfDns' = OfDns /\ f \notin OfHost'
  BY <1>1, <1>2 DEF OfPage, OfDns, OfHost
<1>5. f \notin OfPage \cup OfDns
  BY HostGroups, GroupsApart
<1>6. f \notin Report'
  BY <1>4, <1>5 DEF Report
<1>7. CASE OfHost' \subseteq OfHost
  <2>1. Trades(OfHost, OfHost', f)
    BY <1>4, <1>7 DEF Trades
  <2>2. /\ Report = OfHost \cup (OfPage \cup OfDns)
        /\ Report' = OfHost' \cup (OfPage \cup OfDns)
    BY <1>4 DEF Report
  <2>3. Score' >= Score
    BY <1>1, <1>5, <2>1, <2>2, PartTraded
  <2> QED BY <1>3, <1>6, <2>3
<1>8. CASE ~(OfHost' \subseteq OfHost)
  BY <1>3, <1>6, <1>8 DEF Uncovered
<1> QED BY <1>7, <1>8

(* Doing what one on the DNS says. *)
LEMMA DnsRemedyPays ==
  ASSUME TypeOK, NEW f \in OfDns, dns' \in DnsRemedies(f, dns),
         UNCHANGED <<page, host, policy, zone>>
  PROVE  TypeOK' /\ f \notin Report' /\ Score' >= Score
<1>1. page \in Page /\ dns \in Dns /\ ~page.probe /\ f \in DnsFindings(dns)
  BY DEF TypeOK, OfDns
<1>2. dns' \in Dns /\ f \notin DnsFindings(dns') /\ DnsFindings(dns') \subseteq DnsFindings(dns)
  BY <1>1, DnsPays
<1>3. TypeOK'
  BY <1>2 DEF TypeOK
<1>4. /\ OfPage' = OfPage /\ OfHost' = OfHost
      /\ f \notin OfDns' /\ OfDns' \subseteq OfDns
  BY <1>1, <1>2 DEF OfPage, OfDns, OfHost
<1>5. f \notin OfPage \cup OfHost
  BY HostGroups, GroupsApart
<1>6. Trades(OfDns, OfDns', f)
  BY <1>4 DEF Trades
<1>7. /\ Report = OfDns \cup (OfPage \cup OfHost)
      /\ Report' = OfDns' \cup (OfPage \cup OfHost)
  BY <1>4 DEF Report
<1>8. f \notin Report' /\ Score' >= Score
  BY <1>1, <1>5, <1>6, <1>7, PartTraded
<1> QED BY <1>3, <1>8


-----------------------------------------------------------------------------
(* Whatever is scanned first, and whatever the operator, time and the        *)
(* resolver do to it, stays a page, a host and its DNS.                      *)
LEMMA TypeInit == Init => TypeOK
BY StartsAssumption DEF Init, TypeOK

LEMMA TickTyped == ASSUME TypeOK, Tick PROVE TypeOK'
<1>1. host \in [left : Int, rejected : SUBSET Word, reachable : BOOLEAN, protocol : Word]
      /\ (host.left < 0 => host.rejected # {})
  BY DEF TypeOK, Host
<1> DEFINE rejected == IF host.rejected = {} /\ host.left = 0 THEN {"expired"} ELSE host.rejected
<1>2. host' = [host EXCEPT !.left = host.left - 1, !.rejected = rejected]
  BY <1>1 DEF Tick
<1>3. "expired" \in Word
  BY DEF Word
<1>4. rejected \in SUBSET Word /\ host.left - 1 \in Int
  BY <1>1, <1>3
<1>5. host.left - 1 < 0 => rejected # {}
  BY <1>1
<1> HIDE DEF rejected
<1>6. /\ host' \in [left : Int, rejected : SUBSET Word, reachable : BOOLEAN, protocol : Word]
      /\ host'.left = host.left - 1 /\ host'.rejected = rejected
  BY <1>1, <1>2, <1>4
<1>7. host' \in Host
  BY <1>5, <1>6 DEF Host
<1> QED BY <1>7 DEF TypeOK, Tick

LEMMA FailureTyped ==
  ASSUME TypeOK, NEW lookup \in DOMAIN dns, LookupFails(lookup) PROVE TypeOK'
<1> DEFINE Texts == [kind : Word \ {"spf"}] \cup [kind : {"spf"}, terms : SUBSET Word]
           Policies == [kind : Word \ {"dmarc"}] \cup [kind : {"dmarc"}, policy : Word]
           Authorities == [kind : Word]
<1>1. dns \in [txt : Lookup(Texts), dmarc : Lookup(Policies), caa : Lookup(Authorities)]
  BY DEF TypeOK, Dns
<1>2. dns' = [dns EXCEPT ![lookup] = Failed]
  BY DEF LookupFails, Failed
<1>3. \A Records : Failed \in Lookup(Records)
  <2>1. "failed" \in Word
    BY DEF Word
  <2>2. \A Records : <<>> \in Seq(Records)
    OBVIOUS
  <2> QED BY <2>1, <2>2 DEF Lookup, Failed
<1> HIDE DEF Texts, Policies, Authorities
<1>4. lookup \in {"txt", "dmarc", "caa"}
  BY <1>1
<1>5. dns' \in [txt : Lookup(Texts), dmarc : Lookup(Policies), caa : Lookup(Authorities)]
  BY <1>1, <1>2, <1>3, <1>4
<1>6. dns' \in Dns
  BY <1>5 DEF Dns, Texts, Policies, Authorities
<1> QED BY <1>6 DEF TypeOK, LookupFails

LEMMA RemedyTyped ==
  ASSUME TypeOK, NEW f \in Report, Remedy(f)
  PROVE  /\ TypeOK'
         /\ f \notin Report'
         /\ \/ Score' >= Score
            \/ Uncovered
            \/ FirstCsp /\ f.rule \in ClickjackingRules
<1>1. CASE f \in OfPage /\ page' \in PageRemedies(f, page, policy) /\ UNCHANGED <<host, dns>>
  <2>1. UNCHANGED <<host, dns, policy, zone>>
    BY <1>1 DEF Remedy
  <2> QED BY <1>1, <2>1, PageRemedyPays
<1>2. CASE f \in OfHost /\ host' \in TlsRemedies(f, host) /\ UNCHANGED <<page, dns>>
  <2>1. UNCHANGED <<page, dns, policy, zone>>
    BY <1>2 DEF Remedy
  <2> QED BY <1>2, <2>1, HostRemedyPays
<1>3. CASE f \in OfDns /\ dns' \in DnsRemedies(f, dns) /\ UNCHANGED <<page, host>>
  <2>1. UNCHANGED <<page, host, policy, zone>>
    BY <1>3 DEF Remedy
  <2> QED BY <1>3, <2>1, DnsRemedyPays
<1> QED BY <1>1, <1>2, <1>3 DEF Remedy

LEMMA TypeKept == TypeOK /\ [Next]_vars => TypeOK'
<1> SUFFICES ASSUME TypeOK, [Next]_vars PROVE TypeOK'
  OBVIOUS
<1>1. CASE \E f \in Report : Remedy(f)
  BY <1>1, RemedyTyped
<1>2. CASE Tick
  BY <1>2, TickTyped
<1>3. CASE \E lookup \in DOMAIN dns : LookupFails(lookup)
  BY <1>3, FailureTyped
<1>4. CASE UNCHANGED vars
  BY <1>4 DEF vars, TypeOK
<1> QED BY <1>1, <1>2, <1>3, <1>4 DEF Next

-----------------------------------------------------------------------------
(* The remedies are what they should be: a page, a host or DNS of the kinds  *)
(* that the checks can be asked about, after any number of them and of half  *)
(* days (check_headers, check_tls, check_dns and their like).                *)
THEOREM PostureTyped == Spec => []TypeOK
<1> QED BY TypeInit, TypeKept, PTL DEF Spec

(* Of every CSP that a page can come to have, _csp_quality_findings reports  *)
(* eval and objects that a browser lets run, and inline and arbitrary        *)
(* scripts too if no script-src-elem or script-src-attr, which headers.py    *)
(* does not read, takes them from script-src.  If the CSP is well formed it  *)
(* reports, with the same exception, only what a browser lets run.           *)
THEOREM CspJudged == Spec => []CspJudgedRight
<1>1. TypeOK => CspJudgedRight
  <2>1. TypeOK => \A csp \in page.headers.csp : csp \in Csp
    BY DEF TypeOK, Page, Headers, Header
  <2>2. \A csp \in Csp :
          LET found == {f.rule : f \in CspQualityFindings(csp)}
              broad == "csp-broad-script-src" \in found
          IN  /\ EvalRuns(csp) => "csp-unsafe-eval" \in found \/ broad
              /\ AnyObjectRuns(csp) => "csp-broad-object-src" \in found
              /\ Wellformed(csp) =>
                   /\ "csp-unsafe-eval" \in found => EvalRuns(csp)
                   /\ "csp-broad-object-src" \in found => AnyObjectRuns(csp)
              /\ ~NamesFiner(csp) =>
                   /\ InlineRuns(csp) => "csp-unsafe-inline" \in found \/ broad
                   /\ AnyScriptRuns(csp) => broad
                   /\ Wellformed(csp) =>
                        /\ "csp-unsafe-inline" \in found => InlineRuns(csp)
                        /\ broad => AnyScriptRuns(csp)
    BY JudgedRight
  <2> QED BY <2>1, <2>2 DEF CspJudgedRight
<1> QED BY <1>1, PostureTyped, PTL

(* Of every certificate, however long it is valid, check_tls speaks while it *)
(* runs out and after, in whatever zone datetime.now() is.                   *)
THEOREM ExpiryTold == Spec => []ExpiryToldInTime
<1>1. TypeOK => ExpiryToldInTime
  BY ToldInTime
<1> QED BY <1>1, PostureTyped, PTL

(* In check_dns, a lookup that fails takes away what was said of its own     *)
(* records, whatever they are, and nothing else.                             *)
THEOREM FailuresBlameNobody == Spec => LookupsNotBlamed
<1>1. TypeOK /\ [Next]_vars =>
        [\A lookup \in DOMAIN dns : LookupFails(lookup) =>
           OfDns' = {f \in OfDns : LookupOf(f.rule) # lookup}]_vars
  BY FailureBlamesNobody
<1> QED BY <1>1, PostureTyped, PTL DEF Spec, LookupsNotBlamed

(* Whatever a page, its host and its DNS are like, doing what `remediation`  *)
(* says of a finding makes it go, and calculate_score gives no less for it,  *)
(* but for what was not looked at before and for a first CSP.                *)
THEOREM RemediesPay == Spec => RemedyPays
<1>1. TypeOK /\ [Next]_vars =>
        [\A f \in Report : Remedy(f) =>
           /\ f \notin Report'
           /\ \/ Score' >= Score
              \/ Uncovered
              \/ FirstCsp /\ f.rule \in {"missing-clickjacking-protection", "invalid-xfo"}]_vars
  BY RemedyTyped DEF ClickjackingRules
<1> QED BY <1>1, PostureTyped, PTL DEF Spec, RemedyPays
=============================================================================
