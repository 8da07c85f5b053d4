SPECIFICATION FairSpec
CONSTANTS
    Jobs = {"task", "vel1", "vel2", "home"}
    Maintenance = {"task"}
    Domains = {"default", "drive"}
    Routes = {"/velocity", "/home"}
    Conns = {"c1", "c2"}
    NoJob = NoJob
    DomainOf <- MCDomainOf
    PolicyOf <- MCPolicyOf
    RouteOf <- MCRouteOf
    ConnOf <- MCConnOf
    MaxSerializedConcurrency = 2
CONSTRAINT ThreeSubmitted
INVARIANTS OneAtATime CountersAgree EnoughWorkers ConnPendingAgrees
PROPERTIES ImplementsDomainQueues AdmittedIsResolved StopTerminates
