------------------------- MODULE CreateCommandProofs -------------------------
(***************************************************************************)
(* The way of a driver's options to docker-machine, for any names, any     *)
(* number of options, any values and whatever client.Host knows:           *)
(*                                                                         *)
(*   - what flagToField describes, buildMachineCreateCmd accepts, through  *)
(*     templates, structs and providers (TypedInv, DescribedTheorem);      *)
(*   - the secret values arrive (SecretInv, SecretsTheorem), and all the   *)
(*     others if client.Host knows every option (ConfigInv, ConfigTheorem),*)
(*     provided that names return.  That they do is a matter of sequences  *)
(*     of characters, put together by induction: NamesReturn is a          *)
(*     hypothesis here, and is checked on the instance.                    *)
(***************************************************************************)
EXTENDS CreateCommand, TLAPS

Accepted == {"string", "boolean", "array"}

\* A config has values of accepted types, for fields of the schema.
Fits(config) ==
    /\ DOMAIN ValuesOf(config) \subseteq DOMAIN schema
    /\ \A n \in DOMAIN ValuesOf(config) : config[n].type \in Accepted

TypedInv ==
    /\ TypeOK
    /\ DOMAIN given = Source
    /\ \A n \in DOMAIN schema : schema[n] \in Accepted
    /\ \A s \in Source : Fits(given[s])
    /\ Fits(fields) /\ Fits(struct)
    /\ pc = "describe" => /\ given = [s \in Source |-> NoConfig] /\ fields = NoConfig
                          /\ struct = NoConfig /\ known = {}
    /\ refused # "unsupported"

-----------------------------------------------------------------------------
\* The sources are three.
LEMMA SourcesAre == Len(Sources) = 3 /\ Source = {"own", "public", "secret"}
BY DEF Sources, Source

\* A config has values only if there is one.
LEMMA Valued ==
    ASSUME NEW config, NEW n \in DOMAIN ValuesOf(config)
    PROVE  config # NoConfig /\ n \in DOMAIN config /\ ValuesOf(config) = config
BY DEF ValuesOf

\* What a source gives fits, and says where it is from.
LEMMA GivenFits ==
    ASSUME \A n \in DOMAIN schema : schema[n] \in Accepted, NEW s \in Source, NEW c \in Configs(s)
    PROVE  Fits(c) /\ \A n \in DOMAIN ValuesOf(c) : c[n].from \in {s, "empty"}
<1>1. CASE c = NoConfig
  BY <1>1, Valued DEF Fits
<1>2. ASSUME NEW N \in SUBSET DOMAIN schema, NEW from \in [N -> {s, "empty"}],
             c = [n \in N |-> Value(schema[n], from[n])]
      PROVE  Fits(c) /\ \A n \in DOMAIN ValuesOf(c) : c[n].from \in {s, "empty"}
  <2>1. DOMAIN ValuesOf(c) \subseteq N
    BY <1>2, Valued
  <2>2. \A n \in N : c[n].type = schema[n] /\ c[n].from = from[n]
    BY <1>2 DEF Value
  <2> QED
    BY <2>1, <2>2 DEF Fits
<1> QED
  BY <1>1, <1>2 DEF Configs

\* The struct takes what it has fields for.
LEMMA IntoStructFits ==
    ASSUME NEW c, Fits(c), Fits(struct), DOMAIN ValuesOf(struct) \subseteq known, NEW new,
           new = IntoStruct(c)
    PROVE  Fits(new) /\ DOMAIN ValuesOf(new) \subseteq known
<1>1. CASE c = NoConfig \/ known = {}
  BY <1>1 DEF IntoStruct
<1>2. CASE ~(c = NoConfig \/ known = {})
  <2>1. PICK part : part = [n \in known \cap DOMAIN c |-> c[n]]
    OBVIOUS
  <2>2. new = Over(part, ValuesOf(struct)) /\ ValuesOf(c) = c
    BY <1>2, <2>1 DEF IntoStruct, ValuesOf
  <2>3. /\ DOMAIN new = (known \cap DOMAIN c) \cup DOMAIN ValuesOf(struct)
        /\ \A n \in DOMAIN new : new[n] = IF n \in known \cap DOMAIN c THEN c[n] ELSE ValuesOf(struct)[n]
    BY <2>1, <2>2 DEF Over
  <2>4. ASSUME NEW n \in DOMAIN ValuesOf(struct)
        PROVE  ValuesOf(struct)[n] = struct[n]
    BY <2>4, Valued
  <2>5. \A n \in DOMAIN ValuesOf(new) : n \in DOMAIN new
    BY Valued
  <2>6. ASSUME NEW n \in DOMAIN ValuesOf(new)
        PROVE  n \in DOMAIN schema /\ new[n].type \in Accepted /\ n \in known
    <3>1. CASE n \in known \cap DOMAIN c
      BY <2>2, <2>3, <2>5, <3>1 DEF Fits
    <3>2. CASE n \notin known \cap DOMAIN c
      BY <2>3, <2>4, <2>5, <2>6, <3>2 DEF Fits
    <3> QED
      BY <3>1, <3>2
  <2> QED
    BY <2>6 DEF Fits
<1> QED
  BY <1>1, <1>2

\* What an error leaves alone.
LEMMA RefuseTyped ==
    ASSUME TypedInv, NEW a, NEW why, Refuse(a, why), a # "refused",
           why \in {"name", "type", "template", "config", "value"}
    PROVE  TypedInv'
BY DEF TypedInv, TypeOK, Refuse, Goto, Fits, ValuesOf

\* The types, before anything is described.
LEMMA TypedStart ==
    ASSUME Init
    PROVE  TypedInv
<1>1. DOMAIN flags \subseteq Options
  BY DEF Init
<1>2. /\ pc = "describe" /\ driver \in DriverNames /\ schema = <<>> /\ known = {}
      /\ given = [s \in Source |-> NoConfig] /\ struct = NoConfig /\ fields = NoConfig
      /\ refused = "no"
  BY DEF Init
<1>3. DOMAIN schema = {} /\ DOMAIN ValuesOf(NoConfig) = {}
  BY <1>2 DEF ValuesOf
<1> QED
  BY <1>1, <1>2, <1>3 DEF TypedInv, TypeOK, Fits

LEMMA DescribeTyped ==
    ASSUME TypedInv, Describe
    PROVE  TypedInv'
<1>1. CASE Refuse("describe", "name") \/ Refuse("describe", "type")
  BY <1>1, RefuseTyped
<1>2. CASE ~(Refuse("describe", "name") \/ Refuse("describe", "type"))
  <2>1. /\ pc' = "give" /\ pc = "describe" /\ UNCHANGED <<driver, flags, known, given, struct, fields, args, refused>>
        /\ \A n \in DOMAIN schema' : \E o \in DOMAIN flags : schema'[n] = SchemaType(flags[o])
    BY <1>2 DEF Describe, Goto
  <2>2. \A n \in DOMAIN schema' : schema'[n] \in Accepted
    BY <2>1 DEF SchemaType, Accepted
  <2>3. \A s \in Source : given[s] = NoConfig
    BY <2>1 DEF TypedInv
  <2>4. DOMAIN ValuesOf(NoConfig) = {}
    BY DEF ValuesOf
  <2>5. Fits(NoConfig)'
    BY <2>4 DEF Fits, ValuesOf
  <2> QED
    BY <2>1, <2>2, <2>3, <2>4, <2>5 DEF TypedInv, TypeOK, Fits, ValuesOf
<1> QED
  BY <1>1, <1>2

\* The template's values: the fields are replaced, the struct filled up.
LEMMA CopyTyped ==
    ASSUME TypedInv, CopyPublic \/ CopySecret
    PROVE  TypedInv'
<1>1. CASE Refuse("public", "template") \/ Refuse("secret", "template")
  BY <1>1, RefuseTyped
<1>2. ASSUME NEW s \in Source, CopyData(s), pc' \in {"secret", "populate"}, pc # "refused",
             UNCHANGED <<driver, flags, schema, known, given, args, refused>>
      PROVE  TypedInv'
  <2>1. Fits(given[s]) /\ Fits(struct) /\ DOMAIN ValuesOf(struct) \subseteq known
    BY DEF TypedInv, TypeOK
  <2>2. PICK f, n : f = fields' /\ n = struct' /\ f = given[s] /\ n = IntoStruct(given[s])
    BY <1>2 DEF CopyData
  <2>3. Fits(n) /\ DOMAIN ValuesOf(n) \subseteq known /\ Fits(f)
    BY <2>1, <2>2, IntoStructFits
  <2> QED
    BY <1>2, <2>2, <2>3 DEF TypedInv, TypeOK, Fits, ValuesOf
<1> QED
  BY <1>1, <1>2, SourcesAre DEF CopyPublic, CopySecret, Goto

\* What populateFields takes from the struct, and what the fields are then: that,
\* and their own.
Taken == {n \in DOMAIN struct : ~Empty(struct[n])}

LEMMA PopulateGives ==
    ASSUME PopulateFields, struct # NoConfig
    PROVE  /\ DOMAIN fields' = (Taken \cup DOMAIN ValuesOf(fields)) \ {<<"links">>}
           /\ \A n \in DOMAIN fields' : fields'[n] = IF n \in Taken THEN struct[n] ELSE ValuesOf(fields)[n]
<1>1. PICK own, of, all : /\ own = [n \in Taken |-> struct[n]] /\ of = OfStruct
                          /\ all = Over(OfStruct, ValuesOf(fields))
  OBVIOUS
<1>2. of = Over(own, OfResource)
  BY <1>1 DEF OfStruct, Taken
<1>3. DOMAIN OfResource = {<<"links">>}
  BY DEF OfResource
<1>4. /\ DOMAIN of = Taken \cup {<<"links">>}
      /\ \A n \in DOMAIN of : n \in Taken => of[n] = struct[n]
  BY <1>1, <1>2, <1>3 DEF Over
<1>5. /\ DOMAIN all = DOMAIN of \cup DOMAIN ValuesOf(fields)
      /\ \A n \in DOMAIN all : all[n] = IF n \in DOMAIN of THEN of[n] ELSE ValuesOf(fields)[n]
  BY <1>1 DEF Over
<1>6. fields' = [n \in DOMAIN all \ {<<"links">>} |-> all[n]]
  BY <1>1, <1>3 DEF PopulateFields
<1>7. DOMAIN fields' = (Taken \cup DOMAIN ValuesOf(fields)) \ {<<"links">>}
  BY <1>4, <1>5, <1>6
<1>8. ASSUME NEW n \in DOMAIN fields'
      PROVE  fields'[n] = IF n \in Taken THEN struct[n] ELSE ValuesOf(fields)[n]
  BY <1>4, <1>5, <1>6, <1>8
<1> QED
  BY <1>7, <1>8

\* What makes the struct a resource does not get in.
LEMMA PopulateTyped ==
    ASSUME TypedInv, PopulateFields
    PROVE  TypedInv'
<1>1. UNCHANGED <<driver, flags, schema, known, given, struct, args, refused>> /\ pc = "populate"
      /\ pc' = "provider"
  BY DEF PopulateFields, Goto
<1>2. CASE struct = NoConfig
  <2>1. fields' = fields
    BY <1>2 DEF PopulateFields
  <2> QED
    BY <1>1, <2>1 DEF TypedInv, TypeOK, Fits, ValuesOf
<1>3. CASE struct # NoConfig
  <2>1. ASSUME NEW n \in DOMAIN fields'
        PROVE  n \in DOMAIN schema /\ fields'[n].type \in Accepted
    <3>1. CASE n \in Taken
      <4>1. n \in DOMAIN ValuesOf(struct)
        BY <1>3, <3>1 DEF Taken, ValuesOf
      <4> QED
        BY <1>3, <2>1, <3>1, <4>1, PopulateGives DEF TypedInv, Fits
    <3>2. CASE n \notin Taken
      <4>1. n \in DOMAIN ValuesOf(fields) /\ fields'[n] = ValuesOf(fields)[n]
        BY <1>3, <2>1, <3>2, PopulateGives
      <4> QED
        BY <4>1, Valued DEF TypedInv, Fits
    <3> QED
      BY <3>1, <3>2
  <2>2. DOMAIN ValuesOf(NoConfig) = {}
    BY DEF ValuesOf
  <2>3. Fits(fields)' /\ DOMAIN ValuesOf(fields') \subseteq DOMAIN schema
    BY <1>1, <2>1, <2>2 DEF Fits, ValuesOf
  <2> QED
    BY <1>1, <2>3 DEF TypedInv, TypeOK, Fits, ValuesOf
<1> QED
  BY <1>2, <1>3

\* A path is a string.
LEMMA HandleCreateTyped ==
    ASSUME TypedInv, HandleCreate
    PROVE  TypedInv'
<1>1. CASE Refuse("provider", "config") \/ Refuse("provider", "value")
  BY <1>1, RefuseTyped
<1>2. ASSUME pc = "provider", pc' = "build", NEW name,
             \/ fields' = fields
             \/ fields # NoConfig /\ fields' = [fields EXCEPT ![name] = Value("string", "file")],
             UNCHANGED <<driver, flags, schema, known, given, struct, args, refused>>
      PROVE  TypedInv'
  <2>1. DOMAIN fields' = DOMAIN fields
    BY <1>2
  <2>2. \A n \in DOMAIN fields : fields'[n] = fields[n] \/ fields'[n].type = "string"
    BY <1>2 DEF Value
  <2>3. Fits(fields)' /\ DOMAIN ValuesOf(fields') \subseteq DOMAIN schema
    <3>1. CASE fields' = fields
      BY <1>2, <3>1 DEF TypedInv, Fits, ValuesOf
    <3>2. CASE fields # NoConfig
      BY <1>2, <2>1, <2>2, <3>2 DEF TypedInv, Fits, ValuesOf, Accepted
    <3> QED
      BY <1>2, <3>1, <3>2
  <2> QED
    BY <1>2, <2>3 DEF TypedInv, TypeOK, Fits, ValuesOf
<1>3. ASSUME Goto("provider", "build"), fields' = fields \/ \E name \in DOMAIN ValuesOf(fields) :
                 fields' = [fields EXCEPT ![name] = Value("string", "file")],
             UNCHANGED <<driver, flags, schema, known, given, struct, args, refused>>
      PROVE  TypedInv'
  BY <1>2, <1>3, Valued DEF Goto
<1> QED
  BY <1>1, <1>3 DEF HandleCreate

\* The host and its template come with values of the types in the schema.
LEMMA GiveTyped ==
    ASSUME TypedInv, Give
    PROVE  TypedInv'
<1>1. PICK own \in Configs("own"), public \in Configs("public"), secret \in Configs("secret") :
          /\ given' = [own |-> own, public |-> public, secret |-> secret]
          /\ fields' = own
          /\ struct' = IF known' = {} \/ own = NoConfig THEN NoConfig
                       ELSE [n \in known' \cap DOMAIN own |-> own[n]]
  BY DEF Give
<1>2. UNCHANGED <<driver, flags, schema, args, refused>> /\ pc = "give" /\ pc' = "public"
      /\ known' \subseteq DOMAIN schema
  BY DEF Give, Goto
<1>3. Fits(own) /\ Fits(public) /\ Fits(secret)
  BY SourcesAre, GivenFits DEF TypedInv
<1>4. DOMAIN ValuesOf(NoConfig) = {}
  BY DEF ValuesOf
<1>5. Fits(struct)' /\ DOMAIN ValuesOf(struct') \subseteq known'
  <2>1. CASE struct' = NoConfig
    BY <1>4, <2>1 DEF Fits, ValuesOf
  <2>2. CASE own # NoConfig /\ struct' = [n \in known' \cap DOMAIN own |-> own[n]]
    BY <1>2, <1>3, <1>4, <2>2 DEF Fits, ValuesOf
  <2> QED
    BY <1>1, <2>1, <2>2
<1>6. DOMAIN given' = Source /\ \A s \in Source : Fits(given'[s])
  BY <1>1, <1>3, SourcesAre
<1>7. Fits(fields)' /\ \A s \in Source : Fits(given[s])'
  BY <1>1, <1>2, <1>3, <1>6 DEF Fits, ValuesOf
<1> QED
  BY <1>2, <1>5, <1>6, <1>7 DEF TypedInv, TypeOK, Fits

\* Nothing is unsupported.
LEMMA BuildTyped ==
    ASSUME TypedInv, BuildCreateCommand
    PROVE  TypedInv'
<1>1. CASE Refuse("build", "config")
  BY <1>1, RefuseTyped
<1>2. CASE fields # NoConfig
  <2>1. ~ \E n \in DOMAIN fields : fields[n].type \notin Accepted
    BY <1>2 DEF TypedInv, Fits, ValuesOf
  <2>2. /\ pc = "build" /\ pc' = "done"
        /\ UNCHANGED <<driver, flags, schema, known, given, struct, fields, refused>>
    BY <1>2, <2>1 DEF BuildCreateCommand, Goto, Accepted
  <2> QED
    BY <2>2 DEF TypedInv, TypeOK, Fits, ValuesOf
<1> QED
  BY <1>1, <1>2 DEF BuildCreateCommand

\* The types, whatever happens.
LEMMA TypedStep ==
    ASSUME TypedInv, [Next]_vars
    PROVE  TypedInv'
<1>1. CASE UNCHANGED vars
  BY <1>1 DEF vars, TypedInv, TypeOK, Fits, ValuesOf
<1> QED
  BY <1>1, DescribeTyped, GiveTyped, CopyTyped, PopulateTyped, HandleCreateTyped, BuildTyped DEF Next

\* The types, for any names, options and values.
THEOREM CommandTypes == Spec => []TypeOK
<1>1. TypedInv => TypeOK
  BY DEF TypedInv
<1> QED
  BY <1>1, TypedStart, TypedStep, PTL DEF Spec

\* DescribedIsAccepted: no option of a type that flagToField describes is refused
\* by buildMachineCreateCmd, whoever has changed its value on the way.
THEOREM DescribedTheorem == Spec => []DescribedIsAccepted
<1>1. TypedInv => DescribedIsAccepted
  BY DEF TypedInv, DescribedIsAccepted
<1> QED
  BY <1>1, TypedStart, TypedStep, PTL DEF Spec

-----------------------------------------------------------------------------
(***************************************************************************)
(* The secret values.  copyData replaces the fields by them and fills the  *)
(* struct up with them, so populateFields overwrites them with themselves. *)
(***************************************************************************)
Secret == given["secret"]

Holds(n) == fields # NoConfig => n \in DOMAIN fields /\ fields[n] = Secret[n]

\* Where the value of n is.
Carried(n) ==
    /\ pc = "populate" => fields = Secret /\ (n \in DOMAIN ValuesOf(struct) => struct[n] = Secret[n])
    /\ pc = "provider" => Holds(n)
    /\ pc = "build" => IsFile(n) \/ Holds(n)
    /\ pc = "done" => IsFile(n) \/ <<FlagOf(n), "secret">> \in args

SecretInv ==
    /\ \A s \in Source : \A n \in DOMAIN ValuesOf(given[s]) : given[s][n].from \in {s, "empty"}
    /\ pc \notin {"describe", "refused"} => \A o \in DOMAIN flags : Len(driver \o o) # 1
    /\ \A n \in DOMAIN ValuesOf(Secret) \ DOMAIN OfResource :
           Secret[n].from = "secret" => Carried(n)

\* No secret value is given yet.
LEMMA SecretStart ==
    ASSUME Init
    PROVE  SecretInv
<1>1. DOMAIN ValuesOf(NoConfig) = {}
  BY DEF ValuesOf
<1> QED
  BY <1>1, SourcesAre DEF Init, SecretInv, Secret

\* What a step has to show that leaves options and values alone.
LEMMA CarryOn ==
    ASSUME SecretInv, UNCHANGED <<driver, flags, given>>, pc # "describe", pc # "refused",
           \A n \in DOMAIN ValuesOf(Secret) \ DOMAIN OfResource :
               Secret[n].from = "secret" /\ Carried(n) => Carried(n)'
    PROVE  SecretInv'
<1>1. Secret' = Secret /\ UNCHANGED <<OfResource, ValuesOf(Secret)>>
  BY DEF Secret, OfResource, ValuesOf, Value
<1>2. \A s \in Source : ValuesOf(given[s])' = ValuesOf(given[s])
  BY DEF ValuesOf
<1> QED
  BY <1>1, <1>2 DEF SecretInv

\* Nothing is carried to where createMachine is refused.
LEMMA RefuseCarries ==
    ASSUME SecretInv, NEW a, NEW why, Refuse(a, why)
    PROVE  SecretInv'
<1>1. Secret' = Secret /\ UNCHANGED <<OfResource, ValuesOf(Secret)>>
  BY DEF Refuse, Secret, OfResource, ValuesOf, Value
<1>2. \A s \in Source : ValuesOf(given[s])' = ValuesOf(given[s]) /\ given' = given
  BY DEF Refuse, ValuesOf
<1>3. pc' = "refused"
  BY DEF Refuse, Goto
<1> QED
  BY <1>1, <1>2, <1>3 DEF SecretInv, Carried

\* The values say where they are from.
LEMMA BeforeCarries ==
    ASSUME TypedInv, SecretInv, Describe \/ Give
    PROVE  SecretInv'
<1>1. CASE Describe
  <2>1. CASE Refuse("describe", "name") \/ Refuse("describe", "type")
    BY <2>1, RefuseCarries
  <2>2. CASE ~(Refuse("describe", "name") \/ Refuse("describe", "type"))
    <3>1. pc' = "give" /\ UNCHANGED <<driver, flags, given>> /\ \A o \in DOMAIN flags : Len(driver \o o) # 1
      BY <1>1, <2>2 DEF Describe, Goto
    <3>2. Secret' = Secret /\ UNCHANGED <<OfResource, ValuesOf(Secret)>>
      BY <3>1 DEF Secret, OfResource, ValuesOf, Value
    <3>3. \A s \in Source : ValuesOf(given[s])' = ValuesOf(given[s]) /\ given' = given
      BY <3>1 DEF ValuesOf
    <3> QED
      BY <3>1, <3>2, <3>3 DEF SecretInv, Carried
  <2> QED
    BY <2>1, <2>2
<1>2. CASE Give
  <2>1. PICK own \in Configs("own"), public \in Configs("public"), secret \in Configs("secret") :
            given' = [own |-> own, public |-> public, secret |-> secret]
    BY <1>2 DEF Give
  <2>2. /\ \A n \in DOMAIN ValuesOf(own) : own[n].from \in {"own", "empty"}
        /\ \A n \in DOMAIN ValuesOf(public) : public[n].from \in {"public", "empty"}
        /\ \A n \in DOMAIN ValuesOf(secret) : secret[n].from \in {"secret", "empty"}
    BY SourcesAre, GivenFits DEF TypedInv
  <2>3. ASSUME NEW s \in Source, NEW n \in DOMAIN ValuesOf(given'[s])
        PROVE  given'[s][n].from \in {s, "empty"}
    BY <2>1, <2>2, <2>3, SourcesAre
  <2>4. pc = "give" /\ pc' = "public" /\ UNCHANGED <<driver, flags>>
    BY <1>2 DEF Give, Goto
  <2>5. \A s \in Source : ValuesOf(given[s])' = ValuesOf(given'[s])
    BY DEF ValuesOf
  <2> QED
    BY <2>3, <2>4, <2>5 DEF SecretInv, Carried
<1> QED
  BY <1>1, <1>2

\* The public values change nothing of this; the secret ones are all that the fields
\* have then, and what the struct has of them is the same.
LEMMA CopyCarries ==
    ASSUME TypedInv, SecretInv, CopyPublic \/ CopySecret
    PROVE  SecretInv'
<1>1. CASE Refuse("public", "template") \/ Refuse("secret", "template")
  BY <1>1, RefuseCarries
<1>2. CASE CopyPublic /\ Goto("public", "secret") /\ UNCHANGED <<driver, flags, given>>
  BY <1>2, CarryOn DEF Goto, Carried
<1>3. CASE Goto("secret", "populate") /\ CopyData("secret") /\ UNCHANGED <<driver, flags, known, given>>
  <2>1. ASSUME NEW n \in DOMAIN ValuesOf(Secret)
        PROVE  Carried(n)'
    <3>1. fields' = Secret /\ Secret' = Secret /\ Secret # NoConfig /\ n \in DOMAIN Secret
      BY <1>3, <2>1, Valued DEF CopyData, Secret
    <3>2. ASSUME n \in DOMAIN ValuesOf(struct')
          PROVE  struct'[n] = Secret[n]
      <4>1. struct' = IntoStruct(Secret)
        BY <1>3 DEF CopyData, Secret
      <4>2. CASE known = {}
        <5>1. struct' = struct
          BY <4>1, <4>2 DEF IntoStruct
        <5> QED
          BY <3>2, <4>2, <5>1 DEF TypedInv, TypeOK
      <4>3. CASE known # {}
        <5>1. struct' = Over([m \in known \cap DOMAIN Secret |-> Secret[m]], ValuesOf(struct))
          BY <3>1, <4>1, <4>3 DEF IntoStruct
        <5>2. n \in DOMAIN struct' /\ DOMAIN struct' = (known \cap DOMAIN Secret) \cup DOMAIN ValuesOf(struct)
          BY <3>2, <5>1, Valued DEF Over
        <5>3. n \in known \cap DOMAIN Secret
          BY <3>1, <5>2 DEF TypedInv, TypeOK
        <5> QED
          BY <5>1, <5>3 DEF Over
      <4> QED
        BY <4>2, <4>3
    <3>3. pc' = "populate"
      BY <1>3 DEF Goto
    <3>4. ValuesOf(struct)' = ValuesOf(struct')
      BY DEF ValuesOf
    <3> QED
      BY <3>1, <3>2, <3>3, <3>4 DEF Carried
  <2> QED
    BY <1>3, <2>1, CarryOn DEF Goto
<1> QED
  BY <1>1, <1>2, <1>3 DEF CopyPublic, CopySecret

\* What the struct has is written over what is the same.
LEMMA PopulateCarries ==
    ASSUME SecretInv, PopulateFields
    PROVE  SecretInv'
<1>1. pc = "populate" /\ pc' = "provider" /\ UNCHANGED <<driver, flags, given>>
  BY DEF PopulateFields, Goto
<1>2. ASSUME NEW n \in DOMAIN ValuesOf(Secret) \ DOMAIN OfResource, Carried(n)
      PROVE  n \in DOMAIN fields' /\ fields'[n] = Secret[n]
  <2>1. /\ fields = Secret /\ Secret # NoConfig /\ n \in DOMAIN Secret /\ n # <<"links">>
        /\ ValuesOf(fields) = Secret
    BY <1>1, <1>2, Valued DEF Carried, OfResource
  <2>2. CASE struct = NoConfig
    BY <2>1, <2>2 DEF PopulateFields
  <2>3. CASE struct # NoConfig
    <3>1. n \in DOMAIN fields' /\ fields'[n] = IF n \in Taken THEN struct[n] ELSE Secret[n]
      BY <2>1, <2>3, PopulateGives
    <3>2. n \in Taken => n \in DOMAIN ValuesOf(struct)
      BY <2>3 DEF Taken, ValuesOf
    <3> QED
      BY <1>1, <1>2, <3>1, <3>2 DEF Carried
  <2> QED
    BY <2>2, <2>3
<1>3. Secret' = Secret
  BY <1>1 DEF Secret
<1> QED
  BY <1>1, <1>2, <1>3, CarryOn DEF Carried, Holds

\* The provider changes its file only.
LEMMA HandleCreateCarries ==
    ASSUME SecretInv, HandleCreate
    PROVE  SecretInv'
<1>1. CASE Refuse("provider", "config") \/ Refuse("provider", "value")
  BY <1>1, RefuseCarries
<1>2. ASSUME Goto("provider", "build"), UNCHANGED <<driver, flags, given>>,
             \/ fields' = fields
             \/ \E name : /\ IsFile(name) /\ fields # NoConfig
                          /\ fields' = [fields EXCEPT ![name] = Value("string", "file")]
      PROVE  SecretInv'
  <2>1. Secret' = Secret /\ \A n : IsFile(n)' <=> IsFile(n)
    BY <1>2 DEF Secret, IsFile
  <2>2. ASSUME NEW n \in DOMAIN ValuesOf(Secret) \ DOMAIN OfResource, Carried(n)
        PROVE  IsFile(n) \/ Holds(n)'
    <3>1. Holds(n)
      BY <1>2, <2>2 DEF Carried, Goto
    <3> QED
      BY <1>2, <2>1, <3>1 DEF Holds
  <2> QED
    BY <1>2, <2>1, <2>2, CarryOn DEF Carried, Goto
<1>3. CASE /\ Goto("provider", "build") /\ UNCHANGED <<driver, flags, given>>
           /\ \/ fields' = fields
              \/ \E i \in DOMAIN Certificates :
                     /\ driver = Azure /\ Certificates[i] \in DOMAIN ValuesOf(fields)
                     /\ fields' = [fields EXCEPT ![Certificates[i]] = Value("string", "file")]
  <2>1. \A i \in DOMAIN Certificates :
            driver = Azure /\ Certificates[i] \in DOMAIN ValuesOf(fields) =>
                IsFile(Certificates[i]) /\ fields # NoConfig
    BY Valued DEF IsFile
  <2> QED
    BY <1>2, <1>3, <2>1
<1> QED
  BY <1>1, <1>3 DEF HandleCreate

\* No value that is not empty is left out.
LEMMA BuildCarries ==
    ASSUME TypedInv, SecretInv, BuildCreateCommand
    PROVE  SecretInv'
<1>1. CASE Refuse("build", "config")
  BY <1>1, RefuseCarries
<1>2. CASE fields # NoConfig
  <2>1. ~ \E n \in DOMAIN fields : fields[n].type \notin Accepted
    BY <1>2 DEF TypedInv, Fits, ValuesOf
  <2>2. /\ pc = "build" /\ pc' = "done" /\ UNCHANGED <<driver, flags, given>>
        /\ args' = {<<FlagOf(n), fields[n].from>> : n \in {m \in DOMAIN fields : ~Empty(fields[m])}}
    BY <1>2, <2>1 DEF BuildCreateCommand, Goto, Accepted
  <2>3. \A n : (IsFile(n)' <=> IsFile(n)) /\ FlagOf(n)' = FlagOf(n)
    BY <2>2 DEF IsFile, FlagOf
  <2>4. ASSUME NEW n \in DOMAIN ValuesOf(Secret) \ DOMAIN OfResource, Carried(n),
               Secret[n].from = "secret", ~IsFile(n)
        PROVE  <<FlagOf(n), "secret">> \in args'
    <3>1. n \in DOMAIN fields /\ fields[n] = Secret[n]
      BY <1>2, <2>2, <2>4 DEF Carried, Holds
    <3>2. ~Empty(fields[n]) /\ fields[n].from = "secret"
      BY <2>4, <3>1 DEF Empty
    <3> QED
      BY <2>2, <3>1, <3>2
  <2> QED
    BY <2>2, <2>3, <2>4, CarryOn DEF Carried
<1> QED
  BY <1>1, <1>2 DEF BuildCreateCommand

\* The secret values, whatever happens.
LEMMA SecretStep ==
    ASSUME TypedInv, SecretInv, [Next]_vars
    PROVE  SecretInv'
<1>1. CASE UNCHANGED vars
  <2>1. Secret' = Secret /\ UNCHANGED <<OfResource, ValuesOf(Secret), pc, flags, driver, fields, args>>
    BY <1>1 DEF vars, Secret, OfResource, ValuesOf, Value
  <2>2. \A s \in Source : ValuesOf(given[s])' = ValuesOf(given[s]) /\ given' = given
    BY <1>1 DEF vars, ValuesOf
  <2>3. \A n : Carried(n)' <=> Carried(n)
    BY <1>1, <2>1 DEF vars, Carried, Holds, IsFile, FlagOf, ValuesOf
  <2> QED
    BY <2>1, <2>2, <2>3 DEF SecretInv
<1> QED
  BY <1>1, BeforeCarries, CopyCarries, PopulateCarries, HandleCreateCarries, BuildCarries DEF Next

\* No option has the name of what makes a struct a resource, which populateFields
\* leaves out.
OwnNames == DOMAIN schema \cap DOMAIN OfResource = {}

\* The value that counts is one that was given.
LEMMA LatestIsGiven ==
    ASSUME NEW n, Givers(n) # {}
    PROVE  \E s \in Source : n \in DOMAIN ValuesOf(given[s]) /\ Latest(n) = given[s][n]
<1>1. Givers(n) \subseteq {1, 2, 3}
  BY SourcesAre DEF Givers
<1>2. \E i \in Givers(n) : \A j \in Givers(n) : j <= i
  <2>1. CASE 3 \in Givers(n)
    BY <1>1, <2>1
  <2>2. CASE 3 \notin Givers(n) /\ 2 \in Givers(n)
    BY <1>1, <2>2
  <2>3. CASE Givers(n) = {1}
    BY <2>3
  <2> QED
    BY <1>1, <2>1, <2>2, <2>3
<1>3. PICK i : i = CHOOSE k \in Givers(n) : \A j \in Givers(n) : j <= k
  OBVIOUS
<1>4. i \in Givers(n)
  BY <1>2, <1>3
<1>5. Sources[i] \in Source /\ n \in DOMAIN ValuesOf(given[Sources[i]])
  BY <1>4 DEF Givers, Source
<1> QED
  BY <1>3, <1>5 DEF Latest

\* SecretsArrive, for any names, options and values and whatever client.Host knows,
\* if the flags' names return.
THEOREM SecretsTheorem == Spec => [](NamesReturn /\ OwnNames => SecretsArrive)
<1>1. Init => TypedInv /\ SecretInv
  BY TypedStart, SecretStart
<1>2. TypedInv /\ SecretInv /\ [Next]_vars => (TypedInv /\ SecretInv)'
  BY TypedStep, SecretStep
<1>3. TypedInv /\ SecretInv => (NamesReturn /\ OwnNames => SecretsArrive)
  <2>1. SUFFICES ASSUME TypedInv, SecretInv, NamesReturn, OwnNames, pc = "done", AllSurvive,
                        NEW o \in DOMAIN flags, Wanted(o), Latest(Field(o)).from = "secret"
                 PROVE  <<Flag(driver \o o), "secret">> \in args
    BY DEF SecretsArrive
  <2>2. PICK n : n = Field(o)
    OBVIOUS
  <2>3. PICK s \in Source : n \in DOMAIN ValuesOf(given[s]) /\ given[s][n].from = "secret"
    BY <2>1, <2>2, LatestIsGiven DEF Wanted
  <2>4. s = "secret"
    BY <2>1, <2>3, SourcesAre DEF SecretInv
  <2>5. n \in DOMAIN schema /\ n \in DOMAIN ValuesOf(Secret)
    BY <2>1, <2>3, <2>4 DEF TypedInv, Fits, Secret
  <2>6. Carried(n)
    BY <2>1, <2>3, <2>4, <2>5 DEF SecretInv, OwnNames, Secret
  <2>7. <<FlagOf(n), "secret">> \in args
    BY <2>1, <2>2, <2>6 DEF Carried, Wanted
  <2>8. FlagOf(n) = Flag(driver \o o)
    <3>1. Survives(o)
      BY <2>1 DEF AllSurvive
    <3>2. driver \in Seq(Seq(STRING)) /\ o \in Seq(Seq(STRING))
      BY <2>1, CommandAssumption DEF TypedInv, TypeOK
    <3>3. Len(driver \o o) = 1 + Len(o) /\ Len(o) \in Nat
      <4>1. Len(driver) = 1
        BY <3>1 DEF Survives
      <4>2. Len(driver \o o) = Len(driver) + Len(o) /\ Len(o) \in Nat
        BY <3>2
      <4> QED
        BY <4>1, <4>2
    <3>4. Len(driver \o o) # 1
      BY <2>1 DEF SecretInv
    <3>5. Len(driver \o o) > 1
      BY <3>3, <3>4
    <3> QED
      BY <2>1, <2>2, <3>1, <3>5 DEF NamesReturn
  <2> QED
    BY <2>7, <2>8
<1> QED
  BY <1>1, <1>2, <1>3, PTL DEF Spec

-----------------------------------------------------------------------------
(***************************************************************************)
(* All values, if client.Host knows every option of the driver: then the   *)
(* struct collects what the sources give, the latest for each field, and   *)
(* populateFields puts that in place of what the last source gave alone.   *)
(***************************************************************************)
KnowsAll == known # {} /\ known = DOMAIN schema /\ OwnNames

\* NoConfig is not mistaken for a config, which is a function.
NoFunction == NoConfig # [n \in DOMAIN NoConfig |-> NoConfig[n]]

NoneGiven == \A s \in Source : given[s] = NoConfig

\* The struct has, of every field, what the latest of the first k sources gave.
GiversTo(n, k) == {i \in Givers(n) : i <= k}

Collected(n, k) ==
    /\ n \in DOMAIN ValuesOf(struct) <=> GiversTo(n, k) # {}
    /\ \A i \in GiversTo(n, k) :
           (\A j \in GiversTo(n, k) : j <= i) => struct[n] = given[Sources[i]][n]

Filled(k) ==
    /\ struct = NoConfig <=> \A i \in 1..k : given[Sources[i]] = NoConfig
    /\ \A n \in DOMAIN schema : Collected(n, k)

\* The fields have a value for n that is not empty, if the latest is such a value,
\* and then they have this.
Says(n)  == n \in DOMAIN ValuesOf(fields) /\ ~Empty(fields[n])
Meant(n) == Givers(n) # {} /\ ~Empty(Latest(n))

Arrived(n) == (Says(n) <=> Meant(n)) /\ (Says(n) => fields[n] = Latest(n))

CollectInv ==
    /\ pc = "public" => Filled(1)
    /\ pc = "secret" => Filled(2)
    /\ pc = "populate" => Filled(3) /\ fields = Secret
    /\ pc \in {"provider", "build", "done"} =>
           /\ fields = NoConfig <=> NoneGiven
           /\ \A n \in DOMAIN schema : (pc # "provider" /\ IsFile(n)) \/ Arrived(n)
    /\ pc = "done" =>
           args = {<<FlagOf(n), fields[n].from>> : n \in {m \in DOMAIN ValuesOf(fields) : ~Empty(fields[m])}}
    /\ refused = "config" => NoneGiven

ConfigInv ==
    /\ pc \notin {"describe", "refused"} => DOMAIN schema = {Field(o) : o \in DOMAIN flags}
    /\ KnowsAll => CollectInv

\* A config is not NoConfig.
LEMMA IsConfig ==
    ASSUME NoFunction, NEW f, f = [n \in DOMAIN f |-> f[n]]
    PROVE  f # NoConfig
BY DEF NoFunction

\* The sources, by their numbers.
LEMMA SourcesNumbered ==
    /\ 1..Len(Sources) = {1, 2, 3}
    /\ Sources[1] = "own" /\ Sources[2] = "public" /\ Sources[3] = "secret"
    /\ \A n : Givers(n) = {i \in {1, 2, 3} : n \in DOMAIN ValuesOf(given[Sources[i]])}
<1>1. Len(Sources) = 3 /\ Sources[1] = "own" /\ Sources[2] = "public" /\ Sources[3] = "secret"
  BY DEF Sources
<1>2. 1..3 = {1, 2, 3}
  OBVIOUS
<1> QED
  BY <1>1, <1>2 DEF Givers

\* IntoStruct when the struct has every field of the schema.
LEMMA IntoStructGives ==
    ASSUME KnowsAll, NoFunction, NEW c, DOMAIN ValuesOf(c) \subseteq DOMAIN schema
    PROVE  LET new == IntoStruct(c) IN
           /\ new = NoConfig <=> c = NoConfig /\ struct = NoConfig
           /\ \A n : n \in DOMAIN ValuesOf(new) <=>
                        n \in DOMAIN ValuesOf(c) \/ n \in DOMAIN ValuesOf(struct)
           /\ \A n \in DOMAIN ValuesOf(c) : new[n] = c[n]
           /\ \A n \in DOMAIN ValuesOf(struct) \ DOMAIN ValuesOf(c) : new[n] = struct[n]
<1>1. PICK new : new = IntoStruct(c)
  OBVIOUS
<1>2. CASE c = NoConfig
  <2>1. new = struct /\ DOMAIN ValuesOf(c) = {}
    BY <1>1, <1>2 DEF IntoStruct, ValuesOf
  <2> QED
    BY <1>1, <1>2, <2>1
<1>3. CASE c # NoConfig
  <2>1. PICK part : part = [n \in known \cap DOMAIN c |-> c[n]]
    OBVIOUS
  <2>2. new = Over(part, ValuesOf(struct)) /\ ValuesOf(c) = c /\ DOMAIN c = known \cap DOMAIN c
    BY <1>1, <1>3, <2>1 DEF IntoStruct, ValuesOf, KnowsAll
  <2>3. /\ DOMAIN new = DOMAIN c \cup DOMAIN ValuesOf(struct)
        /\ \A n \in DOMAIN new : new[n] = IF n \in DOMAIN c THEN c[n] ELSE ValuesOf(struct)[n]
    BY <2>1, <2>2 DEF Over
  <2>4. new # NoConfig
    <3>1. new = [n \in DOMAIN new |-> new[n]]
      BY <2>2 DEF Over
    <3> QED
      BY <3>1, IsConfig
  <2>5. ValuesOf(new) = new
    BY <2>4 DEF ValuesOf
  <2>6. \A n \in DOMAIN ValuesOf(struct) : ValuesOf(struct)[n] = struct[n]
    BY Valued
  <2> QED
    BY <1>1, <1>3, <2>2, <2>3, <2>4, <2>5, <2>6
<1> QED
  BY <1>2, <1>3

\* Every value is from one source at least, and the latest is one of them.
LEMMA LatestFrom ==
    ASSUME NEW n, NEW i \in Givers(n), \A j \in Givers(n) : j <= i
    PROVE  Latest(n) = given[Sources[i]][n]
<1>1. \A k \in Givers(n) : (\A j \in Givers(n) : j <= k) => k = i
  BY SourcesNumbered
<1> QED
  BY <1>1 DEF Latest

\* ... and there is a latest of the first k.
LEMMA LatestOf ==
    ASSUME NEW n, NEW k \in 1..3, GiversTo(n, k) # {}
    PROVE  \E i \in GiversTo(n, k) : \A j \in GiversTo(n, k) : j <= i
<1>1. GiversTo(n, k) \subseteq {1, 2, 3}
  BY SourcesNumbered DEF GiversTo
<1>2. CASE 3 \in GiversTo(n, k)
  BY <1>1, <1>2
<1>3. CASE 3 \notin GiversTo(n, k) /\ 2 \in GiversTo(n, k)
  BY <1>1, <1>3
<1>4. CASE GiversTo(n, k) = {1}
  BY <1>4
<1> QED
  BY <1>1, <1>2, <1>3, <1>4

\* The next source fills the struct up.
LEMMA FillsUp ==
    ASSUME TypedInv, KnowsAll, NoFunction, NEW k \in 1..2, Filled(k),
           UNCHANGED <<given, schema, known>>, struct' = IntoStruct(given[Sources[k + 1]])
    PROVE  Filled(k + 1)'
<1>1. k \in {1, 2} /\ k + 1 \in {2, 3} /\ 1..(k + 1) = (1..k) \cup {k + 1} /\ k + 1 \notin 1..k
  OBVIOUS
<1>2. PICK c, new : c = given[Sources[k + 1]] /\ new = struct'
  OBVIOUS
<1>3. DOMAIN ValuesOf(c) \subseteq DOMAIN schema
  BY <1>1, <1>2, SourcesNumbered, SourcesAre DEF TypedInv, Fits
<1>4. /\ new = NoConfig <=> c = NoConfig /\ struct = NoConfig
      /\ \A n : n \in DOMAIN ValuesOf(new) <=>
                   n \in DOMAIN ValuesOf(c) \/ n \in DOMAIN ValuesOf(struct)
      /\ \A n \in DOMAIN ValuesOf(c) : new[n] = c[n]
      /\ \A n \in DOMAIN ValuesOf(struct) \ DOMAIN ValuesOf(c) : new[n] = struct[n]
  BY <1>2, <1>3, IntoStructGives
<1>5. struct' = NoConfig <=> \A i \in 1..(k + 1) : given'[Sources[i]] = NoConfig
  BY <1>1, <1>2, <1>4 DEF Filled
<1>6. ASSUME NEW n \in DOMAIN schema
      PROVE  Collected(n, k + 1)'
  <2>1. Givers(n)' = Givers(n) /\ ValuesOf(struct)' = ValuesOf(new)
    BY <1>2 DEF Givers, ValuesOf
  <2>2. k + 1 \in Givers(n) <=> n \in DOMAIN ValuesOf(c)
    BY <1>1, <1>2, SourcesNumbered
  <2>3. /\ GiversTo(n, k + 1)' = GiversTo(n, k + 1)
        /\ \A i : i \in GiversTo(n, k + 1) <=> i \in GiversTo(n, k) \/ (i = k + 1 /\ i \in Givers(n))
        /\ \A i \in GiversTo(n, k) : i < k + 1
    BY <1>1, <2>1, SourcesNumbered DEF GiversTo
  <2>4. Collected(n, k)
    BY <1>6 DEF Filled
  <2>5. n \in DOMAIN ValuesOf(new) <=> GiversTo(n, k + 1) # {}
    BY <1>4, <2>2, <2>3, <2>4 DEF Collected
  <2>6. ASSUME NEW i \in GiversTo(n, k + 1), \A j \in GiversTo(n, k + 1) : j <= i
        PROVE  new[n] = given[Sources[i]][n]
    <3>1. CASE k + 1 \in Givers(n)
      <4>1. i \in {1, 2, 3} /\ k + 1 <= i /\ ~(i < k + 1)
        BY <1>1, <2>3, <2>6, <3>1, SourcesNumbered DEF GiversTo
      <4>2. i = k + 1
        BY <2>3, <2>6, <4>1
      <4> QED
        BY <1>2, <1>4, <2>2, <3>1, <4>2
    <3>2. CASE k + 1 \notin Givers(n)
      <4>1. i \in GiversTo(n, k) /\ \A j \in GiversTo(n, k) : j <= i
        BY <2>3, <2>6, <3>2
      <4>2. struct[n] = given[Sources[i]][n] /\ n \in DOMAIN ValuesOf(struct)
        BY <2>4, <4>1 DEF Collected
      <4> QED
        BY <1>4, <2>2, <3>2, <4>2
    <3> QED
      BY <3>1, <3>2
  <2> QED
    BY <1>2, <2>1, <2>3, <2>5, <2>6 DEF Collected
<1> QED
  BY <1>5, <1>6 DEF Filled

\* The first source is the host's record.
LEMMA GiveCollects ==
    ASSUME TypedInv, NoFunction, Give, KnowsAll'
    PROVE  CollectInv'
<1>0. PICK own \in Configs("own"), public \in Configs("public"), secret \in Configs("secret") :
          /\ given' = [own |-> own, public |-> public, secret |-> secret]
          /\ struct' = IF known' = {} \/ own = NoConfig THEN NoConfig
                       ELSE [n \in known' \cap DOMAIN own |-> own[n]]
  BY DEF Give
<1>1. /\ given'["own"] = own
      /\ struct' = IF known' = {} \/ own = NoConfig THEN NoConfig
                   ELSE [n \in known' \cap DOMAIN own |-> own[n]]
  BY <1>0
<1>2. /\ pc' = "public" /\ schema' = schema /\ refused' = refused /\ refused = "no"
      /\ known' # {} /\ known' = DOMAIN schema
  BY DEF Give, Goto, KnowsAll, TypedInv, TypeOK
<1>3. DOMAIN ValuesOf(own) \subseteq DOMAIN schema
  BY <1>1, SourcesAre, GivenFits DEF TypedInv, Fits
<1>4. PICK new : new = struct'
  OBVIOUS
<1>5. /\ new = NoConfig <=> own = NoConfig
      /\ ValuesOf(new) = ValuesOf(own) /\ \A n \in DOMAIN ValuesOf(own) : new[n] = own[n]
  <2>1. CASE own = NoConfig
    BY <1>1, <1>4, <2>1, Valued
  <2>2. CASE own # NoConfig
    <3>1. new = [n \in known' \cap DOMAIN own |-> own[n]] /\ known' \cap DOMAIN own = DOMAIN own
      BY <1>1, <1>2, <1>3, <1>4, <2>2 DEF ValuesOf
    <3>2. own = [n \in DOMAIN own |-> own[n]]
      BY <2>2 DEF Configs
    <3> QED
      BY <2>2, <3>1, <3>2
  <2> QED
    BY <2>1, <2>2
<1>6. 1..1 = {1} /\ Sources[1] = "own"
  BY SourcesNumbered
<1>7. ASSUME NEW n \in DOMAIN schema
      PROVE  Collected(n, 1)'
  <2>1. ValuesOf(struct)' = ValuesOf(new) /\ ValuesOf(given["own"])' = ValuesOf(own)
    BY <1>1, <1>4 DEF ValuesOf
  <2>2. Givers(n)' = {i \in {1, 2, 3} : n \in DOMAIN ValuesOf(given[Sources[i]])'}
    <3>1. 1..Len(Sources) = {1, 2, 3}
      BY SourcesNumbered
    <3> QED
      BY <3>1 DEF Givers
  <2>3. GiversTo(n, 1)' = IF n \in DOMAIN ValuesOf(own) THEN {1} ELSE {}
    BY <1>6, <2>1, <2>2 DEF GiversTo
  <2> QED
    BY <1>1, <1>4, <1>5, <1>6, <2>1, <2>3 DEF Collected
<1>8. Filled(1)'
  BY <1>1, <1>2, <1>4, <1>5, <1>6, <1>7 DEF Filled
<1> QED
  BY <1>2, <1>8 DEF CollectInv

\* The next two are those of the template.
LEMMA CopyCollects ==
    ASSUME TypedInv, KnowsAll, CollectInv, NoFunction, CopyPublic \/ CopySecret
    PROVE  CollectInv'
<1>1. CASE Refuse("public", "template") \/ Refuse("secret", "template")
  BY <1>1 DEF Refuse, Goto, CollectInv
<1>2. CASE Goto("public", "secret") /\ CopyData("public") /\ UNCHANGED <<schema, known, given, refused>>
  <2>1. struct' = IntoStruct(given[Sources[1 + 1]]) /\ Filled(1)
    BY <1>2, SourcesNumbered DEF CopyData, CollectInv, Goto
  <2>2. Filled(1 + 1)'
    BY <1>2, <2>1, FillsUp
  <2> QED
    BY <1>2, <2>2 DEF CollectInv, Goto, TypedInv, TypeOK
<1>3. CASE Goto("secret", "populate") /\ CopyData("secret") /\ UNCHANGED <<schema, known, given, refused>>
  <2>1. struct' = IntoStruct(given[Sources[2 + 1]]) /\ Filled(2)
    BY <1>3, SourcesNumbered DEF CopyData, CollectInv, Goto
  <2>2. Filled(2 + 1)'
    BY <1>3, <2>1, FillsUp
  <2> QED
    BY <1>3, <2>2 DEF CollectInv, Goto, TypedInv, TypeOK, CopyData, Secret
<1> QED
  BY <1>1, <1>2, <1>3 DEF CopyPublic, CopySecret

\* populateFields: what was collected counts, unless it is empty; then what the
\* template's secret values say is empty too.
LEMMA PopulateCollects ==
    ASSUME TypedInv, KnowsAll, CollectInv, NoFunction, PopulateFields
    PROVE  CollectInv'
<1>1. /\ pc = "populate" /\ pc' = "provider" /\ UNCHANGED <<driver, schema, given, struct, refused>>
      /\ refused = "no"
  BY DEF PopulateFields, Goto, TypedInv, TypeOK
<1>2. Filled(3) /\ fields = Secret
  BY <1>1 DEF CollectInv
<1>3. struct = NoConfig <=> NoneGiven
  BY <1>2, SourcesAre, SourcesNumbered DEF Filled, NoneGiven
<1>4. fields' = NoConfig <=> NoneGiven
  <2>1. CASE struct = NoConfig
    BY <1>2, <1>3, <2>1, SourcesAre DEF PopulateFields, NoneGiven, Secret
  <2>2. CASE struct # NoConfig
    <3>1. fields' = [n \in DOMAIN fields' |-> fields'[n]]
      BY <2>2 DEF PopulateFields
    <3> QED
      BY <1>3, <2>2, <3>1, IsConfig
  <2> QED
    BY <2>1, <2>2
<1>5. ASSUME NEW n \in DOMAIN schema
      PROVE  Arrived(n)'
  <2>1. Collected(n, 3) /\ GiversTo(n, 3) = Givers(n)
    BY <1>2, <1>5, SourcesNumbered DEF Filled, GiversTo
  <2>2. Givers(n) # {} => Latest(n) = struct[n] /\ n \in DOMAIN ValuesOf(struct)
    <3>1. SUFFICES ASSUME Givers(n) # {}
                   PROVE  Latest(n) = struct[n]
      BY <2>1 DEF Collected
    <3>2. PICK i \in Givers(n) : \A j \in Givers(n) : j <= i
      <4>1. 3 \in 1..3
        OBVIOUS
      <4> QED
        BY <2>1, <3>1, <4>1, LatestOf
    <3> QED
      BY <2>1, <3>2, LatestFrom DEF Collected
  <2>3. /\ Givers(n)' = Givers(n) /\ Latest(n)' = Latest(n)
        /\ Meant(n)' <=> Meant(n)
    BY <1>1 DEF Givers, Latest, ValuesOf, Meant, Empty
  <2>4. Meant(n) <=> n \in DOMAIN ValuesOf(struct) /\ ~Empty(struct[n])
    BY <2>1, <2>2 DEF Meant, Collected
  <2>5. n # <<"links">>
    BY <1>5 DEF KnowsAll, OwnNames, OfResource
  <2>6. CASE struct = NoConfig
    <3>1. fields' = NoConfig /\ DOMAIN ValuesOf(struct) = {} /\ DOMAIN ValuesOf(fields)' = {}
      BY <1>3, <1>4, <2>6 DEF ValuesOf
    <3> QED
      BY <2>3, <2>4, <3>1 DEF Arrived, Says
  <2>7. CASE struct # NoConfig
    <3>1. /\ n \in DOMAIN fields' <=> n \in Taken \/ n \in DOMAIN ValuesOf(fields)
          /\ n \in DOMAIN fields' => fields'[n] = IF n \in Taken THEN struct[n] ELSE ValuesOf(fields)[n]
      BY <2>5, <2>7, PopulateGives
    <3>2. ValuesOf(fields)' = fields'
      BY <1>3, <1>4, <2>7 DEF ValuesOf
    <3>3. n \in Taken <=> Meant(n)
      BY <2>4, <2>7 DEF Taken, ValuesOf
    <3>4. CASE n \in Taken
      <4>1. Says(n)' /\ fields'[n] = struct[n] /\ struct[n] = Latest(n)
        BY <2>2, <3>1, <3>2, <3>3, <3>4 DEF Says, Taken, Empty, Meant
      <4> QED
        BY <2>3, <3>3, <3>4, <4>1 DEF Arrived
    <3>5. CASE n \notin Taken
      <4>1. ASSUME n \in DOMAIN ValuesOf(fields)
            PROVE  Empty(ValuesOf(fields)[n])
        <5>1. n \in DOMAIN ValuesOf(given["secret"]) /\ ValuesOf(fields)[n] = given["secret"][n]
          BY <1>2, <4>1, Valued DEF Secret
        <5>2. 3 \in Givers(n) /\ \A j \in Givers(n) : j <= 3
          BY <5>1, SourcesNumbered
        <5>3. Latest(n) = given["secret"][n]
          BY <5>2, LatestFrom, SourcesNumbered
        <5> QED
          BY <3>3, <3>5, <5>1, <5>2, <5>3 DEF Meant
      <4>2. ~Says(n)'
        BY <3>1, <3>2, <3>5, <4>1 DEF Says, Empty
      <4> QED
        BY <2>3, <3>3, <3>5, <4>2 DEF Arrived
    <3> QED
      BY <3>4, <3>5
  <2> QED
    BY <2>6, <2>7
<1>6. NoneGiven' <=> NoneGiven
  BY <1>1 DEF NoneGiven
<1> QED
  BY <1>1, <1>4, <1>5, <1>6 DEF CollectInv

\* The provider puts the path of a file in the place of its content.
LEMMA HandleCreateCollects ==
    ASSUME TypedInv, KnowsAll, CollectInv, NoFunction, HandleCreate
    PROVE  CollectInv'
<1>0. NoneGiven' <=> NoneGiven
  BY DEF HandleCreate, Refuse, NoneGiven
<1>1. CASE Refuse("provider", "config") /\ fields = NoConfig
  BY <1>0, <1>1 DEF Refuse, Goto, CollectInv
<1>2. CASE Refuse("provider", "value")
  BY <1>2 DEF Refuse, Goto, CollectInv
<1>3. ASSUME Goto("provider", "build"), UNCHANGED <<driver, schema, given, refused>>,
             \/ fields' = fields
             \/ \E name : /\ IsFile(name) /\ name \in DOMAIN ValuesOf(fields)
                          /\ fields' = [fields EXCEPT ![name] = Value("string", "file")]
      PROVE  CollectInv'
  <2>1. fields' = NoConfig <=> fields = NoConfig
    <3>1. CASE fields' = fields
      BY <3>1
    <3>2. CASE \E name : /\ name \in DOMAIN ValuesOf(fields)
                          /\ fields' = [fields EXCEPT ![name] = Value("string", "file")]
      <4>1. fields # NoConfig /\ fields' = [n \in DOMAIN fields' |-> fields'[n]]
        BY <3>2, Valued
      <4> QED
        BY <4>1, IsConfig
    <3> QED
      BY <1>3, <3>1, <3>2
  <2>2. ASSUME NEW n \in DOMAIN schema, ~IsFile(n)'
        PROVE  Arrived(n)'
    <3>1. Arrived(n) /\ ~IsFile(n)
      BY <1>3, <2>2 DEF CollectInv, Goto, IsFile
    <3>2. Givers(n)' = Givers(n) /\ Latest(n)' = Latest(n) /\ (Meant(n)' <=> Meant(n))
      BY <1>3 DEF Givers, Latest, ValuesOf, Meant, Empty
    <3>3. /\ n \in DOMAIN ValuesOf(fields)' <=> n \in DOMAIN ValuesOf(fields)
          /\ n \in DOMAIN ValuesOf(fields) => fields'[n] = fields[n]
      <4>1. CASE fields' = fields
        BY <4>1 DEF ValuesOf
      <4>2. ASSUME NEW name, IsFile(name), name \in DOMAIN ValuesOf(fields),
                   fields' = [fields EXCEPT ![name] = Value("string", "file")]
            PROVE  /\ n \in DOMAIN ValuesOf(fields)' <=> n \in DOMAIN ValuesOf(fields)
                   /\ n \in DOMAIN ValuesOf(fields) => fields'[n] = fields[n]
        <5>1. name # n
          BY <3>1, <4>2
        <5>2. fields # NoConfig /\ fields' # NoConfig
          BY <2>1, <4>2, Valued
        <5>3. DOMAIN fields' = DOMAIN fields /\ \A m \in DOMAIN fields : m # name => fields'[m] = fields[m]
          BY <4>2
        <5> QED
          BY <5>1, <5>2, <5>3 DEF ValuesOf
      <4> QED
        BY <1>3, <4>1, <4>2
    <3>4. (Says(n)' <=> Says(n)) /\ (Says(n) => fields'[n] = fields[n])
      BY <3>3 DEF Says, Empty
    <3> QED
      BY <3>1, <3>2, <3>4 DEF Arrived
  <2>3. refused # "config" /\ pc' = "build" /\ (fields = NoConfig <=> NoneGiven) /\ schema' = schema
    BY <1>3 DEF CollectInv, Goto, TypedInv, TypeOK
  <2> QED
    BY <1>0, <1>3, <2>1, <2>2, <2>3 DEF CollectInv
<1>4. CASE /\ Goto("provider", "build") /\ UNCHANGED <<driver, schema, given, refused>>
           /\ \/ fields' = fields
              \/ \E i \in DOMAIN Certificates :
                     /\ driver = Azure /\ Certificates[i] \in DOMAIN ValuesOf(fields)
                     /\ fields' = [fields EXCEPT ![Certificates[i]] = Value("string", "file")]
  <2>1. \A i \in DOMAIN Certificates : driver = Azure => IsFile(Certificates[i])
    BY DEF IsFile
  <2> QED
    BY <1>3, <1>4, <2>1
<1> QED
  BY <1>1, <1>2, <1>4 DEF HandleCreate

\* The fields that are not empty become flags.
LEMMA BuildCollects ==
    ASSUME TypedInv, KnowsAll, CollectInv, BuildCreateCommand
    PROVE  CollectInv'
<1>0. /\ pc = "build" /\ UNCHANGED <<driver, schema, given, fields>>
      /\ fields = NoConfig <=> NoneGiven
      /\ \A n \in DOMAIN schema : IsFile(n) \/ Arrived(n)
  BY DEF BuildCreateCommand, Refuse, Goto, CollectInv
<1>1. CASE fields = NoConfig
  BY <1>0, <1>1 DEF BuildCreateCommand, Refuse, Goto, CollectInv, NoneGiven
<1>2. CASE fields # NoConfig
  <2>1. ~ \E n \in DOMAIN fields : fields[n].type \notin Accepted
    BY <1>2 DEF TypedInv, Fits, ValuesOf
  <2>2. /\ pc' = "done" /\ refused' = refused /\ refused = "no"
        /\ args' = {<<FlagOf(n), fields[n].from>> : n \in {m \in DOMAIN fields : ~Empty(fields[m])}}
    BY <1>0, <1>2, <2>1 DEF BuildCreateCommand, Goto, Accepted, TypedInv, TypeOK
  <2>3. /\ \A n : FlagOf(n)' = FlagOf(n) /\ (IsFile(n)' <=> IsFile(n)) /\ (Arrived(n)' <=> Arrived(n))
        /\ NoneGiven' <=> NoneGiven
    BY <1>0 DEF FlagOf, IsFile, Arrived, Says, Meant, Empty, Givers, Latest, ValuesOf, NoneGiven
  <2>4. ValuesOf(fields)' = fields
    BY <1>0, <1>2 DEF ValuesOf
  <2>5. args' = {<<FlagOf(n), fields[n].from>> : n \in {m \in DOMAIN fields : ~Empty(fields[m])}}'
    BY <1>0, <2>2, <2>3 DEF Empty
  <2> QED
    BY <1>0, <2>2, <2>3, <2>4, <2>5 DEF CollectInv
<1> QED
  BY <1>1, <1>2

\* The fields, and the values, of every option.
LEMMA ConfigStep ==
    ASSUME TypedInv, ConfigInv, NoFunction, [Next]_vars
    PROVE  ConfigInv'
<1>1. CASE Describe
  <2>1. ~KnowsAll'
    <3>1. known = {} /\ known' = known
      BY <1>1 DEF TypedInv, Describe, Refuse, Goto
    <3> QED
      BY <3>1 DEF KnowsAll
  <2>2. pc' # "refused" => DOMAIN schema' = {Field(o) : o \in DOMAIN flags} /\ UNCHANGED <<driver, flags>>
    BY <1>1 DEF Describe, Refuse, Goto
  <2>3. \A o : UNCHANGED driver => Field(o)' = Field(o)
    BY DEF Field
  <2> QED
    BY <2>1, <2>2, <2>3 DEF ConfigInv
<1>2. ASSUME UNCHANGED <<driver, flags, schema>>, pc # "describe", pc # "refused" \/ UNCHANGED pc,
             KnowsAll' => CollectInv'
      PROVE  ConfigInv'
  <2>1. \A o : Field(o)' = Field(o)
    BY <1>2 DEF Field
  <2> QED
    BY <1>2, <2>1 DEF ConfigInv
<1>3. CASE Give
  BY <1>2, <1>3, GiveCollects DEF Give, Goto
<1>4. CASE CopyPublic \/ CopySecret \/ PopulateFields \/ HandleCreate \/ BuildCreateCommand
  <2>1. /\ UNCHANGED <<driver, flags, schema, known>>
        /\ pc \in {"public", "secret", "populate", "provider", "build"}
    BY <1>4 DEF CopyPublic, CopySecret, PopulateFields, HandleCreate, BuildCreateCommand, Refuse, Goto
  <2>2. KnowsAll' <=> KnowsAll
    BY <2>1 DEF KnowsAll, OwnNames, OfResource
  <2> QED
    BY <1>2, <1>4, <2>1, <2>2, CopyCollects, PopulateCollects, HandleCreateCollects, BuildCollects
    DEF ConfigInv
<1>5. CASE UNCHANGED vars
  <2>1. KnowsAll' <=> KnowsAll
    BY <1>5 DEF vars, KnowsAll, OwnNames, OfResource
  <2>2. \A n : /\ FlagOf(n)' = FlagOf(n) /\ (IsFile(n)' <=> IsFile(n)) /\ (Arrived(n)' <=> Arrived(n))
               /\ Field(n)' = Field(n)
    BY <1>5 DEF vars, FlagOf, IsFile, Arrived, Says, Meant, Empty, Givers, Latest, ValuesOf, Field
  <2>3. \A k : Filled(k)' <=> Filled(k)
    BY <1>5 DEF vars, Filled, Collected, GiversTo, Givers, ValuesOf
  <2>4. /\ UNCHANGED <<Secret, ValuesOf(fields), schema, fields, args, pc, refused, flags>>
        /\ NoneGiven' <=> NoneGiven
        /\ \A n : Empty(fields[n])' <=> Empty(fields[n])
    BY <1>5 DEF vars, Secret, ValuesOf, NoneGiven, Empty
  <2>5. CollectInv => CollectInv'
    BY <2>2, <2>3, <2>4 DEF CollectInv
  <2> QED
    BY <2>1, <2>2, <2>4, <2>5 DEF ConfigInv
<1> QED
  BY <1>1, <1>3, <1>4, <1>5 DEF Next

\* No two options of a driver that have different fields have the same flag: a plugin
\* could not tell them apart.
FlagsDiffer == \A o, p \in DOMAIN flags : Flag(driver \o o) = Flag(driver \o p) => Field(o) = Field(p)

\* A field is that of an option, and its flag is that of this option.
LEMMA FieldsReturn ==
    ASSUME TypedInv, SecretInv, NamesReturn, AllSurvive, pc \notin {"describe", "refused"},
           NEW o \in DOMAIN flags
    PROVE  FlagOf(Field(o)) = Flag(driver \o o)
<1>1. Survives(o) /\ Len(driver) = 1
  BY DEF AllSurvive, Survives
<1>2. driver \in Seq(Seq(STRING)) /\ o \in Seq(Seq(STRING))
  BY CommandAssumption DEF TypedInv, TypeOK
<1>3. Len(driver \o o) = Len(driver) + Len(o) /\ Len(o) \in Nat
  BY <1>2
<1>4. Len(driver \o o) # 1
  BY DEF SecretInv
<1>5. Len(driver \o o) > 1
  BY <1>1, <1>3, <1>4
<1> QED
  BY <1>1, <1>5 DEF NamesReturn

\* ConfigArrives, for any names, options and values, if the flags' names return.
THEOREM ConfigTheorem ==
    ASSUME NoFunction
    PROVE  Spec => [](NamesReturn /\ OwnNames /\ FlagsDiffer => ConfigArrives)
<1>1. Init => TypedInv /\ SecretInv /\ ConfigInv
  <2>1. Init => ConfigInv
    BY DEF Init, ConfigInv, KnowsAll
  <2> QED
    BY <2>1, TypedStart, SecretStart
<1>2. TypedInv /\ SecretInv /\ ConfigInv /\ [Next]_vars => (TypedInv /\ SecretInv /\ ConfigInv)'
  BY TypedStep, SecretStep, ConfigStep
<1>3. TypedInv /\ SecretInv /\ ConfigInv => (NamesReturn /\ OwnNames /\ FlagsDiffer => ConfigArrives)
  <2>1. SUFFICES ASSUME TypedInv, SecretInv, ConfigInv, NamesReturn, OwnNames, FlagsDiffer,
                        known # {}, known = DOMAIN schema, AllSurvive
                 PROVE  /\ refused = "config" => NoneGiven
                        /\ pc = "done" => {a \in args : a[1] \notin FileFlags} =
                               {<<Flag(driver \o o), Latest(Field(o)).from>> :
                                    o \in {p \in DOMAIN flags : Wanted(p)}}
    BY DEF ConfigArrives, NoneGiven
  <2>2. CollectInv
    BY <2>1 DEF ConfigInv, KnowsAll
  <2>3. ASSUME pc = "done"
        PROVE  {a \in args : a[1] \notin FileFlags} =
                   {<<Flag(driver \o o), Latest(Field(o)).from>> :
                        o \in {p \in DOMAIN flags : Wanted(p)}}
    <3>1. /\ DOMAIN schema = {Field(o) : o \in DOMAIN flags}
          /\ \A n \in DOMAIN schema : IsFile(n) \/ Arrived(n)
          /\ args = {<<FlagOf(n), fields[n].from>> :
                         n \in {m \in DOMAIN ValuesOf(fields) : ~Empty(fields[m])}}
      BY <2>1, <2>2, <2>3 DEF ConfigInv, CollectInv
    <3>2. \A o \in DOMAIN flags : FlagOf(Field(o)) = Flag(driver \o o) /\ Field(o) \in DOMAIN schema
      BY <2>1, <2>3, <3>1, FieldsReturn
    <3>3. ASSUME NEW a \in args, a[1] \notin FileFlags
          PROVE  \E o \in DOMAIN flags :
                     Wanted(o) /\ a = <<Flag(driver \o o), Latest(Field(o)).from>>
      <4>1. PICK n \in DOMAIN ValuesOf(fields) : ~Empty(fields[n]) /\ a = <<FlagOf(n), fields[n].from>>
        BY <3>1, <3>3
      <4>2. n \in DOMAIN schema
        BY <2>1 DEF TypedInv, TypeOK
      <4>3. ~IsFile(n)
        BY <3>3, <4>1, <4>2 DEF FileFlags
      <4>4. Meant(n) /\ fields[n] = Latest(n)
        BY <3>1, <4>1, <4>2, <4>3 DEF Arrived, Says
      <4>5. PICK o \in DOMAIN flags : n = Field(o)
        BY <3>1, <4>2
      <4> QED
        BY <3>2, <4>1, <4>3, <4>4, <4>5 DEF Wanted, Meant
    <3>4. ASSUME NEW o \in DOMAIN flags, Wanted(o)
          PROVE  /\ <<Flag(driver \o o), Latest(Field(o)).from>> \in args
                 /\ Flag(driver \o o) \notin FileFlags
      <4>1. PICK n \in DOMAIN schema : n = Field(o)
        BY <3>2
      <4>2. Says(n) /\ fields[n] = Latest(n)
        BY <3>1, <3>4, <4>1 DEF Wanted, Meant, Arrived
      <4>3. <<FlagOf(n), fields[n].from>> \in args
        BY <3>1, <4>2 DEF Says
      <4>4. ASSUME NEW m \in DOMAIN schema, IsFile(m), FlagOf(m) = Flag(driver \o o)
            PROVE  FALSE
        <5>1. PICK p \in DOMAIN flags : m = Field(p)
          BY <3>1
        <5>2. Field(p) = Field(o)
          BY <2>1, <3>2, <4>4, <5>1 DEF FlagsDiffer
        <5> QED
          BY <3>4, <4>4, <5>1, <5>2 DEF Wanted
      <4> QED
        BY <3>2, <4>1, <4>2, <4>3, <4>4 DEF FileFlags
    <3>5. \A o : <<Flag(driver \o o), Latest(Field(o)).from>>[1] = Flag(driver \o o)
      OBVIOUS
    <3> QED
      BY <3>3, <3>4, <3>5
  <2> QED
    BY <2>1, <2>2, <2>3 DEF CollectInv
<1> QED
  BY <1>1, <1>2, <1>3, PTL DEF Spec

=============================================================================
