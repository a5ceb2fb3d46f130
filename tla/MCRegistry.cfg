SPECIFICATION Spec
CONSTANTS
    Jigsaws = {"j1", "j2", "j3"}
    Components = {"a", "b", "j1", "j2", "j3"}
    PathOf <- MCPathOf
    MaxLevels = 3
    MaxClients = 2
    MaxLoops = 2
INVARIANTS TypeOK LookupsExact ToldOrToTell
PROPERTIES SweepExact ImplementsDirectory
