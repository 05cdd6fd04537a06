CONSTANTS
    Rotators = {r1}
    None = None
    Periodic = TRUE
    Disturbances = {"fault", "crash", "relabel", "delete", "create"}
    MaxDisturb = 3
CHECK_DEADLOCK FALSE
SPECIFICATION FairSpec
PROPERTIES DeletionCompletes SecretsFollowObject LabelsAreServed
INVARIANTS TypeOK NeverForgotten UpdatesAreBounded
