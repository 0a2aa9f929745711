CONSTANTS
    Job = {j1}
    Deploy <- MCDeploy
    Setting <- MCSetting
SPECIFICATION Spec
INVARIANTS LogsTellTheTruth FileNeverCostsTheTemplate
PROPERTIES NoChannelFailsAnOperation ConflictIgnoresSwitches EveryDestinationIsTried
