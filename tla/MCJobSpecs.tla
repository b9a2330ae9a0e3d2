----------------------------- MODULE MCJobSpecs -----------------------------
(* JobSpecs for TLC: the pod templates and the commands that users write.  *)
EXTENDS JobSpecs

FromTemplate(names) == [k \in DOMAIN names |-> [name |-> names[k], from |-> "template"]]

\* No volume, one of each place, all of them, and volumes of the user's own.
TemplateVolumes ==
    {FromTemplate(names) : names \in
        {<<>>, <<"target">>, <<"extra", "intermediate">>, <<"source", "intermediate", "target">>}}

Container(name, mounts) == << [name |-> name, args |-> <<>>, mounts |-> mounts] >>

\* No container, one next to the Job's own that mounts a volume only the merge
\* has, the Job's own with the first volume somewhere else, and the Job's own
\* with a mount where the intermediate volume belongs.
TemplateContainers(volumes) ==
    {<<>>,
     Container("sidecar", << [name |-> "target", path |-> "target"] >>),
     Container("clustercode",
               [k \in DOMAIN volumes |->
                   [name |-> volumes[k].name,
                    path |-> IF k = 1 THEN "elsewhere" ELSE volumes[k].name]])} \cup
    {Container("clustercode", << [name |-> volumes[k].name, path |-> "intermediate"] >>) :
        k \in DOMAIN volumes \cap {1}}

\* A label of the user's own, where there are no volumes of the user's own.
SomeTemplates ==
    UNION {[volumes : {volumes}, labels : IF volumes = <<>> THEN {{}, {"user"}} ELSE {{}},
            containers : TemplateContainers(volumes)] : volumes \in TemplateVolumes}

MergeCustomised == {{"merge"}}
=============================================================================
