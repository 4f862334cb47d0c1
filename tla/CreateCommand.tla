---------------------------- MODULE CreateCommand -----------------------------
(***************************************************************************)
(* The way of a driver's options from its plugin to docker-machine: the    *)
(* plugin's flags become the fields of the <driver>Config schema           *)
(* (flagToField); a host and its template have values for these fields;    *)
(* createMachine merges them (applyHostTemplate), lets the provider change *)
(* them (HandleCreate) and makes flags of them again                       *)
(* (buildMachineCreateCmd).                                                *)
(*                                                                         *)
(* client.Host has a struct for the <driver>Config of some drivers, with   *)
(* the options that were known when it was generated.  Others are only in  *)
(* the host's data, and in what is copied there.                           *)
(*                                                                         *)
(* A flag is a sequence of words, the driver's own first; a word is a      *)
(* sequence of characters.                                                 *)
(***************************************************************************)
EXTENDS Naturals, Sequences, SequencesExt

CONSTANTS
    DriverNames,   \* the words of drivers' names
    Options,       \* the words of options' names
    MaxOptions,    \* options of a driver, at most
    Azure,         \* the name of azure's driver
    Certificates,  \* azure's fields whose value is the content of a file, in order
    NoConfig       \* there is no <driver>Config

ASSUME CommandAssumption ==
    /\ DriverNames \subseteq Seq(Seq(STRING)) /\ Options \subseteq Seq(Seq(STRING))
    /\ Certificates \in Seq(Seq(STRING))

VARIABLES
    pc,       \* what comes next
    driver,   \* the words of the driver's name
    flags,    \* the plugin's options, each with its type
    schema,   \* the fields of the schema, each with its type
    known,    \* fields that the struct in client.Host has; none: no struct
    given,    \* the values in the host's record and in the template
    struct,   \* that struct
    fields,   \* data.fields.<driver>Config
    args,     \* the driver's options in docker-machine's arguments
    refused   \* why there are no arguments

vars == <<pc, driver, flags, schema, known, given, struct, fields, args, refused>>

Sources   == <<"own", "public", "secret">>
Source    == {Sources[i] : i \in 1..Len(Sources)}
FlagTypes == {"string", "int", "bool", "list", "other"}
Lower     == {"a", "b"}
UpperOf   == [a |-> "A", b |-> "B"]
LowerOf   == [A |-> "a", B |-> "b"]

-----------------------------------------------------------------------------
(***************************************************************************)
(* Names.                                                                  *)
(***************************************************************************)
\* A flag as docker-machine reads it.
Flag(words) == FlattenSeq([i \in 1..Len(words) |->
                   IF i = 1 THEN words[i] ELSE <<"-">> \o words[i]])

ToUpper(c) == IF c \in Lower THEN UpperOf[c] ELSE c
ToLower(c) == IF c \in {"A", "B"} THEN LowerOf[c] ELSE c
Capital(word) == [word EXCEPT ![1] = ToUpper(@)]

\* toLowerCamelCase, which leaves out the first word.
CamelCase(words) == FlattenSeq([i \in 1..(Len(words) - 1) |->
                        IF i = 1 THEN words[2] ELSE Capital(words[i + 1])])

\* Mutant of Hyphenated: a hyphen before every capital.
HyphenatedAnyway(name) == FlattenSeq([i \in 1..Len(name) |->
    IF i > 1 /\ name[i] \in {"A", "B"} THEN <<"-", ToLower(name[i])>> ELSE <<ToLower(name[i])>>])

\* regExHyphen, "([a-z])([A-Z])": a hyphen is put between the two.
Hyphenated(name) == FlattenSeq([i \in 1..Len(name) |->
    IF i > 1 /\ name[i - 1] \in Lower /\ name[i] \in {"A", "B"}
    THEN <<"-", ToLower(name[i])>> ELSE <<ToLower(name[i])>>])

Field(option)   == CamelCase(driver \o option)
FlagOf(name)    == Flag(driver) \o <<"-">> \o Hyphenated(name)

\* Mutant of SchemaType: a type of its own for numbers.
SchemaTypeOwn(t) == CASE t = "bool" -> "boolean" [] t = "list" -> "array"
                      [] t = "int" -> "number" [] OTHER -> "string"

\* flagToField.
SchemaType(t) == CASE t = "bool" -> "boolean" [] t = "list" -> "array" [] OTHER -> "string"

-----------------------------------------------------------------------------
(***************************************************************************)
(* Values.  Of a value we keep its type and where it was given; one that   *)
(* is "empty" is false, "" or [].                                          *)
(***************************************************************************)
Value(t, from) == [type |-> t, from |-> from]
Empty(v)       == v.from = "empty"

\* What one source may give for the fields of the schema.
Configs(s) ==
    {NoConfig} \cup UNION {{[n \in N |-> Value(schema[n], from[n])] :
                               from \in [N -> {s, "empty"}]} : N \in SUBSET DOMAIN schema}

ValuesOf(config) == IF config = NoConfig THEN <<>> ELSE config

\* The values of f, and those of g for what f has no value for.
Over(f, g) == [n \in DOMAIN f \cup DOMAIN g |-> IF n \in DOMAIN f THEN f[n] ELSE g[n]]

\* json.Unmarshal into the struct: fields that it lacks are left out.
IntoStruct(config) ==
    IF config = NoConfig \/ known = {} THEN struct
    ELSE Over([n \in known \cap DOMAIN config |-> config[n]], ValuesOf(struct))

\* json.Marshal of the struct: empty values are left out, but not what makes it a
\* resource, of which "links" stands for all.
OfResource == [n \in {<<"links">>} |-> Value("object", "empty")]
OfStruct   == Over([n \in {m \in DOMAIN struct : ~Empty(struct[m])} |-> struct[n]], OfResource)

-----------------------------------------------------------------------------
(***************************************************************************)
(* The plugin, the schema and the values.                                  *)
(***************************************************************************)
TypeOK ==
    /\ pc \in {"describe", "give", "public", "secret", "populate", "provider",
               "build", "done", "refused"}
    /\ driver \in DriverNames /\ DOMAIN flags \subseteq Options
    /\ DOMAIN ValuesOf(fields) \subseteq DOMAIN schema
    /\ DOMAIN ValuesOf(struct) \subseteq known /\ known \subseteq DOMAIN schema
    /\ refused \in {"no", "name", "type", "template", "config", "value", "unsupported"}
    /\ pc = "refused" <=> refused # "no"

\* Azure's certificates are strings.  Two options are those of a driver with one
\* word: of one with two words no flag returns, whatever else the driver has.
CertificateFlags == {Azure \o <<Certificates[i]>> : i \in DOMAIN Certificates}

Init ==
    /\ pc = "describe" /\ driver \in DriverNames
    /\ \E a \in Options, t \in FlagTypes :
           \/ flags = [o \in {a} |-> t]
           \/ /\ MaxOptions = 2 /\ Len(driver) = 1
              /\ \E b \in Options \ {a} : flags = [o \in {a, b} |-> IF o = a THEN t ELSE "string"]
    /\ \A o \in DOMAIN flags : driver \o o \in CertificateFlags => flags[o] = "string"
    /\ schema = <<>> /\ known = {} /\ given = [s \in Source |-> NoConfig]
    /\ struct = NoConfig /\ fields = NoConfig /\ args = {} /\ refused = "no"

Goto(a, b) == pc = a /\ pc' = b

\* Every error ends createMachine, or the activation.
Refuse(a, why) ==
    /\ Goto(a, "refused") /\ refused' = why
    /\ UNCHANGED <<driver, flags, schema, known, given, struct, fields, args>>

\* GenerateAndUploadSchema.  Of two options with the same field either may be
\* described.
Describe ==
    LET names == {Field(o) : o \in DOMAIN flags} IN
    IF \E o \in DOMAIN flags : Len(driver \o o) = 1 THEN Refuse("describe", "name")
    ELSE IF \E o \in DOMAIN flags : flags[o] = "other" THEN Refuse("describe", "type")
    ELSE /\ Goto("describe", "give")
         /\ schema' \in {f \in [names -> {"string", "boolean", "array", "number"}] :
                            \A n \in names : \E o \in DOMAIN flags :
                                Field(o) = n /\ f[n] = SchemaType(flags[o])}
         /\ UNCHANGED <<driver, flags, known, given, struct, fields, args, refused>>

\* Cattle: the host and its template, with values of the types in the schema.
Give ==
    /\ Goto("give", "public")
    /\ known' \in SUBSET DOMAIN schema
    /\ \E own \in Configs("own"), public \in Configs("public"), secret \in Configs("secret") :
           /\ given' = [own |-> own, public |-> public, secret |-> secret]
           /\ fields' = own
           /\ struct' = IF known' = {} \/ own = NoConfig THEN NoConfig
                         ELSE [n \in known' \cap DOMAIN own |-> own[n]]
    /\ UNCHANGED <<driver, flags, schema, args, refused>>

-----------------------------------------------------------------------------
(***************************************************************************)
(* createMachine.                                                          *)
(***************************************************************************)
\* Mutant of CopyData: values are kept if there are some.
CopyMissingData(s) ==
    /\ struct' = IntoStruct(given[s])
    /\ fields' = IF fields = NoConfig THEN given[s] ELSE fields

\* copyData: the struct is filled up, the fields are replaced.
CopyData(s) ==
    /\ struct' = IntoStruct(given[s])
    /\ fields' = given[s]

\* apply, with the template that the host names: its public values ...
CopyPublic ==
    \/ /\ Goto("public", "secret") /\ CopyData("public")
       /\ UNCHANGED <<driver, flags, schema, known, given, args, refused>>
    \/ Refuse("public", "template")

\* ... its secret values, which are fetched from Cattle ...
CopySecret ==
    \/ /\ Goto("secret", "populate") /\ CopyData("secret")
       /\ UNCHANGED <<driver, flags, schema, known, given, args, refused>>
    \/ Refuse("secret", "template")

\* Mutants of PopulateFields: nothing is done; what makes the struct a resource
\* is left in.
PopulateNothing ==
    /\ Goto("populate", "provider")
    /\ UNCHANGED <<driver, flags, schema, known, given, struct, fields, args, refused>>

PopulateResource ==
    /\ Goto("populate", "provider")
    /\ fields' = IF struct = NoConfig THEN fields ELSE Over(OfStruct, ValuesOf(fields))
    /\ UNCHANGED <<driver, flags, schema, known, given, struct, args, refused>>

\* ... and populateFields: what the struct has goes back into the fields.
PopulateFields ==
    /\ Goto("populate", "provider")
    /\ fields' = IF struct = NoConfig THEN fields
                 ELSE LET all == Over(OfStruct, ValuesOf(fields))
                      IN  [n \in DOMAIN all \ DOMAIN OfResource |-> all[n]]
    /\ UNCHANGED <<driver, flags, schema, known, given, struct, args, refused>>

\* HandleCreate: azure saves the first certificate that it finds to a file, and
\* passes its path.
HandleCreate ==
    LET found == {i \in DOMAIN Certificates :
                     driver = Azure /\ Certificates[i] \in DOMAIN ValuesOf(fields)}
    IN
    \/ driver = Azure /\ fields = NoConfig /\ Refuse("provider", "config")
    \/ /\ driver # Azure \/ fields # NoConfig
       /\ Goto("provider", "build")
       /\ \/ found = {} /\ fields' = fields
          \/ \E i \in found :
                /\ \A j \in found : i <= j
                /\ fields' = [fields EXCEPT ![Certificates[i]] = Value("string", "file")]
       /\ UNCHANGED <<driver, flags, schema, known, given, struct, args, refused>>
    \/ found # {} /\ Refuse("provider", "value")

\* buildMachineCreateCmd.
BuildCreateCommand ==
    IF fields = NoConfig THEN Refuse("build", "config")
    ELSE IF \E n \in DOMAIN fields : fields[n].type \notin {"string", "boolean", "array"}
    THEN Refuse("build", "unsupported")
    ELSE /\ Goto("build", "done")
         /\ args' = {<<FlagOf(n), fields[n].from>> : n \in {m \in DOMAIN fields : ~Empty(fields[m])}}
         /\ UNCHANGED <<driver, flags, schema, known, given, struct, fields, refused>>

Next ==
    \/ Describe \/ Give
    \/ CopyPublic \/ CopySecret \/ PopulateFields \/ HandleCreate \/ BuildCreateCommand

Spec == Init /\ [][Next]_vars

-----------------------------------------------------------------------------
(***************************************************************************)
(* Properties.                                                             *)
(***************************************************************************)
IsLetter(c) == c \in Lower

\* Names that survive: the driver's has one word, the words after a hyphen begin
\* with a letter, those before one end with a letter that is not capitalized.
Survives(o) ==
    /\ Len(driver) = 1
    /\ \A i \in 1..(Len(o) - 1) :
           /\ IsLetter(Head(o[i + 1])) /\ IsLetter(Last(o[i]))
           /\ i > 1 => Len(o[i]) > 1

\* A flag that was made a field (toLowerCamelCase) is made the same flag again
\* (regExHyphen) for exactly these names.
NamesReturn ==
    \A o \in DOMAIN flags :
        Len(driver \o o) > 1 => (FlagOf(Field(o)) = Flag(driver \o o) <=> Survives(o))

\* A config that keeps to the types of the schema is not refused because of an
\* unsupported type: flagToField and buildMachineCreateCmd agree.
DescribedIsAccepted == refused # "unsupported"

\* What is given for an option: in the template's secret values, or else in its
\* public ones, or else in the host's record.
Givers(n) == {i \in 1..Len(Sources) : n \in DOMAIN ValuesOf(given[Sources[i]])}
Latest(n) == given[Sources[CHOOSE i \in Givers(n) : \A j \in Givers(n) : j <= i]][n]

IsFile(n)   == driver = Azure /\ \E i \in DOMAIN Certificates : Certificates[i] = n
AllSurvive  == \A o \in DOMAIN flags : Survives(o)
Wanted(o)   == Givers(Field(o)) # {} /\ ~Empty(Latest(Field(o))) /\ ~IsFile(Field(o))
FileFlags   == {FlagOf(n) : n \in {m \in DOMAIN schema : IsFile(m)}}

\* Whatever of a host and its template has which value, docker-machine gets every
\* option with the value that counts, under the flag that the plugin has for it,
\* and no other option, if client.Host knows the options of the driver.
ConfigArrives ==
    known # {} /\ known = DOMAIN schema /\ AllSurvive =>
        /\ refused = "config" => \A s \in Source : given[s] = NoConfig
        /\ pc = "done" => {a \in args : a[1] \notin FileFlags} =
               {<<Flag(driver \o o), Latest(Field(o)).from>> : o \in {p \in DOMAIN flags : Wanted(p)}}

\* Whatever client.Host knows of the driver, the secret values arrive.
SecretsArrive ==
    pc = "done" /\ AllSurvive =>
        \A o \in DOMAIN flags :
            Wanted(o) /\ Latest(Field(o)).from = "secret" => <<Flag(driver \o o), "secret">> \in args

=============================================================================
