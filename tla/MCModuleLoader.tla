--------------------------- MODULE MCModuleLoader ---------------------------
(* Small installations: kernels of seven classes with a varying hierarchy,  *)
(* methods and VM extensions, and one kernel with modules that import and   *)
(* extend one another.                                                      *)
EXTENDS ModuleLoader, TLC

M(selector, source) == [selector |-> selector, source |-> source, literals |-> <<"lit">>, compiles |-> TRUE]
Broken(selector, source) == [M(selector, source) EXCEPT !.compiles = FALSE]
C(supername, ivars, methods, metaMethods) ==
    [supername |-> supername, instVarNames |-> ivars, classInstVarNames |-> <<>>,
     methods |-> methods, metaMethods |-> metaMethods]
X(methods, metaMethods) == [methods |-> methods, metaMethods |-> metaMethods]
NoFunction == [x \in {} |-> x]
If(c, m) == IF c THEN <<m>> ELSE <<>>

\* The kernel: extra is the superclass of Extra, owners the classes that have
\* a method m, and factory the side on which new: is found.
KernelOf(extra, owners, factory, broken) ==
       ("Object" :> C(Nil, <<>>, If("Object" \in owners, M("m", "Object")),
                      If(factory = "root", M("new:", "Object class"))))
    @@ ("Class" :> C("Object", <<"format", "md">>,
                      If("Class" \in owners, M("m", "Class")) \o If(factory = "Class", M("new:", "Class")), <<>>))
    @@ ("Metaclass" :> C("Object", <<"class">>, <<>>, <<>>))
    @@ ("Module" :> C("Object", <<"name">>, <<M("bootstrap", "Module")>>, <<>>))
    @@ ("KernelModule" :> C("Module", <<>>, <<>>, <<>>))
    @@ ("MethodDictionary" :> C("Object", <<"table">>, <<M("at:put:", "MethodDictionary")>>, <<>>))
    @@ ("Extra" :> C(extra, <<"extra">>,
                      If("Extra" \in owners, IF broken THEN Broken("m", "Extra") ELSE M("m", "Extra")),
                      If("Extra class" \in owners, M("m", "Extra class"))))

VMs == {NoFunction, "Object" :> X(<<M("m", "VM Object")>>, <<>>),
        ("Extra" :> X(<<M("m", "VM Extra")>>, <<M("m", "VM Extra class")>>)) @@ ("Gone" :> X(<<M("m", "VM Gone")>>, <<>>))}

Kernels ==
    {[unreadable |-> FALSE, kernel |-> KernelOf(extra, owners, factory, broken), vm |-> vm,
      modules |-> NoFunction] :
        extra \in {"Object", "Class", "MethodDictionary", "Gone"},
        owners \in SUBSET {"Object", "Class", "Extra"}, factory \in {"root"}, broken \in {FALSE},
        vm \in VMs}
    \cup {[unreadable |-> u, kernel |-> KernelOf("Class", {"Object", "Extra", "Extra class"}, factory, TRUE),
           vm |-> vm, modules |-> NoFunction] : u \in BOOLEAN, factory \in {"Class", "none"}, vm \in VMs}

\* Modules.
I(module, name) == [module |-> module, name |-> name]
S(classes, imports, extensions) ==
    [unreadable |-> FALSE, classes |-> classes, imports |-> imports, extensions |-> extensions]
ModuleClass(name, methods) == name :> C("Module", <<>>, methods, <<>>)

Base == <<"Base">> :> S(ModuleClass("BaseModule", <<>>)
                          @@ ("Leaf" :> C("Middle", <<"leaf">>, <<M("m", "Leaf")>>, <<>>))
                          @@ ("Middle" :> C("Trunk", <<>>, <<>>, <<M("n", "Middle class")>>))
                          @@ ("Trunk" :> C("Extra", <<"trunk">>, <<M("n", "Trunk")>>, <<>>)),
                        <<I(<<"Kernel">>, "Extra")>>,
                        "Object" :> X(<<M("m", "Base Object")>>, <<M("n", "Base Object class")>>))
Tools == <<"Base", "Tools">> :> S(ModuleClass("ToolsModule", <<M("n", "ToolsModule")>>)
                          @@ ("Hammer" :> C("Trunk", <<"weight">>, <<>>, <<>>)),
                        <<I(<<"Base">>, "Trunk")>>,
                        ("Trunk" :> X(<<M("n", "Tools Trunk")>>, <<>>)) @@ ("Unknown" :> X(<<M("m", "?")>>, <<>>)))
Rival == <<"Other">> :> S(ModuleClass("OtherModule", <<>>), <<I(<<"Base">>, "Leaf")>>,
                        ("Object" :> X(<<M("m", "Other Object")>>, <<>>)) @@ ("Extra" :> X(<<M("m", "?")>>, <<>>)))
App == <<"App">> :> S(ModuleClass("AppModule", <<>>) @@ ("Screw" :> C("Hammer", <<>>, <<>>, <<>>)),
                        <<I(<<"Base", "Tools">>, "Hammer"), I(<<"Base">>, "Leaf")>>,
                        "Leaf" :> X(<<M("m", "App Leaf")>>, <<>>))
\* One whose extension does not compile, and one that cannot be read.
Flawed == <<"Flawed">> :> S(ModuleClass("FlawedModule", <<>>) @@ ("Flaw" :> C("Leaf", <<>>, <<>>, <<>>)),
                        <<I(<<"Base">>, "Leaf")>>,
                        "Object" :> X(<<M("m", "Flawed Object"), Broken("n", "Flawed Object")>>, <<>>))
Needy == <<"Needy">> :> S(ModuleClass("NeedyModule", <<>>), <<I(<<"Flawed">>, "Flaw")>>, NoFunction)

\* The other flaws: no file that can be read, no module class, one whose
\* superclass is not of the kernel, a superclass that is not imported, an import
\* that does not exist, one from a module that is not there, and subclasses and
\* an extension of what is not a class.
Flaws ==
       (<<"Unread">> :> [S(ModuleClass("UnreadModule", <<>>), <<>>, NoFunction) EXCEPT !.unreadable = TRUE])
    @@ (<<"Headless">> :> S("Head" :> C("Object", <<>>, <<>>, <<>>), <<>>, NoFunction))
    @@ (<<"Indirect">> :> S(("MyModule" :> C("Stem", <<>>, <<>>, <<>>)) @@ ("Stem" :> C("Module", <<>>, <<>>, <<>>)),
                            <<>>, NoFunction))
    @@ (<<"Orphan">> :> S(ModuleClass("OrphanModule", <<>>) @@ ("Child" :> C("Extra", <<>>, <<>>, <<>>)),
                            <<>>, NoFunction))
    @@ (<<"Wishful">> :> S(ModuleClass("WishfulModule", <<>>), <<I(<<"Orphan">>, "Wish"), I(<<"Kernel">>, "Wish")>>,
                            NoFunction))
    @@ (<<"Slip">> :> S(ModuleClass("SlipModule", <<Broken("m", "SlipModule")>>), <<>>, NoFunction))
    @@ (<<"Trip">> :> S(ModuleClass("TripModule", <<>>) @@ ("Tripped" :> C("Object", <<>>, <<Broken("m", "?")>>, <<>>)),
                            <<>>, NoFunction))
    @@ (<<"Wordy">> :> S(ModuleClass("WordyModule", <<>>) @@ ("Word" :> C("WordSize", <<>>, <<>>, <<>>)),
                            <<I(<<"Kernel">>, "WordSize")>>, NoFunction))
    @@ (<<"Wordier">> :> S(ModuleClass("WordierModule", <<>>), <<I(<<"Kernel">>, "WordSize")>>,
                            "WordSize" :> X(<<M("m", "WordSize")>>, <<>>)))
    @@ (<<"Odd">> :> S(("MyModule" :> C("WordSize", <<>>, <<>>, <<>>)) @@ ("WordSize" :> C("Module", <<>>, <<>>, <<>>)),
                            <<>>, NoFunction))
    @@ (<<"Lost">> :> S(ModuleClass("LostModule", <<>>), <<I(<<"Nowhere">>, "Wish")>>, NoFunction))
    @@ (<<"Late">> :> S(ModuleClass("LateModule", <<>>), <<I(<<"Kernel">>, "Wish")>>, NoFunction))

\* Two modules whose paths end alike, as modules/LMR and modules/Kernel/LMR.
LMR == (<<"LMR">> :> S(ModuleClass("LMRModule", <<>>), <<>>, NoFunction))
    @@ (<<"Kernel", "LMR">> :> S(ModuleClass("LMRModule", <<>>), <<>>, NoFunction))

With(sources) ==
    [unreadable |-> FALSE, kernel |-> KernelOf("Object", {"Object"}, "root", FALSE),
     vm |-> "Object" :> X(<<M("m", "VM Object")>>, <<>>), modules |-> sources]

MCInstallations == Kernels \cup {With(Base @@ Tools @@ Rival @@ App), With(Base @@ Flawed @@ Needy),
                               With(Flaws)}
MCAlike == {With(LMR)}

MCHashOf == [n \in {"Object", "Class", "Metaclass", "Module", "KernelModule", "MethodDictionary",
                    "Extra", "WordSize", "Kernel"} |->
                IF n \in {"Object", "Extra"} THEN 3 ELSE 12]
=============================================================================
