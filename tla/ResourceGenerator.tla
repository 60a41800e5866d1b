-------------------------- MODULE ResourceGenerator --------------------------
(***************************************************************************)
(* From a blueprint and its templates to the resources of a tenant, as     *)
(* operators.  What a run depends on is its environment env, a record of   *)
(*   tenant     the prefixed name of the tenant, its namespace's name too  *)
(*   templates  the ResourceTemplates, by name                             *)
(*   cluster    the live resources by id, as the values at their paths     *)
(*                                                                         *)
(* An optional field is a sequence of at most one element.  A text with    *)
(* placeholders is a function from its fields to the parameters they name; *)
(* executing it puts the values of the parameters in their places.         *)
(***************************************************************************)
EXTENDS Naturals, Sequences, SequencesExt

NoValue == ""
OperatorNamespace == "aeto"

Ok(v) == [ok |-> TRUE, value |-> v]
Fail  == [ok |-> FALSE, value |-> NoValue]

\* What a JSON path leads to.
At(fields, path) == IF path \in DOMAIN fields THEN Ok(fields[path]) ELSE Fail

-----------------------------------------------------------------------------
(* Values of parameters. *)

\* resolveFromBlueprint: from a resource of a group that has come out before.
\* AnyGroup: of whichever group has come out first.
AnyGroup(groups, name) == IF groups = << >> THEN 0 ELSE 1
Group(groups, name) == SelectInSeq(groups, LAMBDA g : g.name = name)
FromBlueprint(ref, groups) ==
    LET i == Group(groups, ref.group)
    IN  IF i = 0 \/ ref.index \notin DOMAIN groups[i].resources THEN Fail
        ELSE At(groups[i].resources[ref.index].body, ref.path)

\* resolveFromResource: from the cluster as it is now.  A resource that is
\* not there and one that cannot be fetched come to the same.
Placed(ref, env) ==
    << ref.kind,
       CASE ref.namespace = "$TENANT_NAMESPACE"   -> env.tenant
         [] ref.namespace = "$OPERATOR_NAMESPACE" -> OperatorNamespace
         [] OTHER -> ref.namespace,
       IF ref.name = "$TENANT_NAME" THEN env.tenant ELSE ref.name >>
FromResource(ref, env) ==
    LET id == Placed(ref, env)
    IN  IF id \in DOMAIN env.cluster THEN At(env.cluster[id], ref.path) ELSE Fail

\* ValueResolver.Func: one reference exactly.
Resolve(ref, groups, env) ==
    CASE Len(ref.blueprint) + Len(ref.resource) # 1 -> Fail
      [] ref.blueprint # << >> -> FromBlueprint(ref.blueprint[1], groups)
      [] ref.resource # << >>  -> FromResource(ref.resource[1], env)

\* ResourceTemplateParameterList.SetValues: a value given twice is resolved
\* twice, and the last one counts.
Given(v, groups, env) ==
    IF v.value = NoValue /\ v.valueFrom # << >>
    THEN Resolve(v.valueFrom[1], groups, env) ELSE Ok(v.value)
SetValue(p, values, groups, env) ==
    LET mine  == SelectSeq(values, LAMBDA v : v.name = p.name)
        given == [i \in DOMAIN mine |-> Given(mine[i], groups, env)]
    IN  IF \E i \in DOMAIN given : ~given[i].ok THEN Fail
        ELSE IF given = << >> THEN Ok(NoValue) ELSE Last(given)

\* Parameter.Value and Validate.  Unchecked: a parameter without a value
\* passes although it is required.
Unchecked(p, v) == Ok(IF v # NoValue THEN v ELSE p.default)
Value(p, v) ==
    CASE v # NoValue         -> Ok(v)
      [] p.default # NoValue -> Ok(p.default)
      [] p.required          -> Fail
      [] OTHER               -> Ok(NoValue)

Parameter(p, values, groups, env) ==
    LET set == SetValue(p, values, groups, env)
    IN  IF set.ok THEN Value(p, set.value) ELSE Fail

-----------------------------------------------------------------------------
(* Resources. *)

\* The rules of a template decide on name and namespace.  A Namespace is
\* named by the namespace it would be put into.
Namespace(doc, rules, env) ==
    CASE rules.namespace = "operator" -> OperatorNamespace
      [] rules.namespace = "tenant"   -> env.tenant
      [] doc.kind = "Namespace"       -> doc.name
      [] OTHER                        -> doc.namespace
Name(doc, rules, env) ==
    CASE doc.kind = "Namespace" -> Namespace(doc, rules, env)
      [] rules.name = "tenant"  -> env.tenant
      [] OTHER                  -> doc.name

\* The id is made of kind, namespace and name; the version of the API is not
\* part of it.
Id(doc, rules, env) ==
    << doc.kind,
       IF doc.kind = "Namespace" THEN doc.namespace ELSE Namespace(doc, rules, env),
       Name(doc, rules, env) >>

\* generateFromResourceGroup: all the resources of a group or, with the first
\* error, none.  A text that names a parameter its template does not declare
\* cannot be executed.
FromGroup(g, groups, env) ==
    IF g.template \notin DOMAIN env.templates THEN Fail ELSE
    LET t      == env.templates[g.template]
        docs   == t.raw \o t.resources
        params == [i \in DOMAIN t.parameters |->
                      Parameter(t.parameters[i], g.parameters, groups, env)]
        Index(name) == SelectInSeq(t.parameters, LAMBDA p : p.name = name)
        Known(doc)  == \A f \in DOMAIN doc.text : Index(doc.text[f]) # 0
    IN  IF \/ \E i \in DOMAIN params : ~params[i].ok
           \/ \E i \in DOMAIN docs : ~Known(docs[i])
        THEN Fail
        ELSE Ok([i \in DOMAIN docs |->
                 [id   |-> Id(docs[i], t.rules, env),
                  body |-> [f \in DOMAIN docs[i].text |->
                                params[Index(docs[i].text[f])].value]]])

\* Generate: a group with an error is passed over, and the run goes on.
\* EndAtError: it ends there.
EndAtError(run, g, env) ==
    LET made == FromGroup(g, run.groups, env)
    IN  IF run.failed THEN run
        ELSE IF made.ok
        THEN [run EXCEPT !.groups = Append(@, [name |-> g.name, resources |-> made.value])]
        ELSE [run EXCEPT !.failed = TRUE]
AddGroup(run, g, env) ==
    LET made == FromGroup(g, run.groups, env)
    IN  IF made.ok
        THEN [run EXCEPT !.groups = Append(@, [name |-> g.name, resources |-> made.value])]
        ELSE [run EXCEPT !.failed = TRUE]

Generate(blueprint, env) ==
    LET run == FoldLeft(LAMBDA r, g : AddGroup(r, g, env),
                        [failed |-> FALSE, groups |-> << >>], blueprint.groups)
    IN  [failed    |-> run.failed,
         groups    |-> run.groups # << >>,
         resources |-> FlattenSeq([i \in DOMAIN run.groups |-> run.groups[i].resources])]
=============================================================================
