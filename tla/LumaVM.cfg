SPECIFICATION Spec
CONSTANTS
    Machines = {q1, q2, q3}
    NoMachine = NoMachine
    MaxRestarts = 2
SYMMETRY MachineSymmetry
INVARIANTS
    StartedIsHeld
    RunningIsFindable
PROPERTY
    CloseLeavesNothing
