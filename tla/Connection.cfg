SPECIFICATION FairSpec
CONSTANTS
    Conns = {c1}
    MaxChannels = 2
    NoName = "none"
    Users <- MCUsers
    NeIds <- MCNeIds
    Clients <- MCClients
    DefaultProfiles <- MCDefaultProfiles
    ScenarioProfiles <- MCScenarioProfiles
    WorkflowUsers <- MCWorkflowUsers
    ScenarioUsers <- MCScenarioUsers
    MappedUsers <- MCMappedUsers
    NodeNames <- MCNodeNames
    ScenarioNodes <- MCScenarioNodes
    RepoUsers <- MCRepoUsers
INVARIANTS OwnPersonality ServedAsAsked SftpUncut
PROPERTY ThreadsEnd
CHECK_DEADLOCK FALSE
