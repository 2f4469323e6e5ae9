SPECIFICATION Spec
CONSTANTS
  Requests = {r1, r2}
  Tenants = {"t1", "t2"}
  Objects = {o1, o2}
  failure_threshold = 2
INVARIANT TypeOK
INVARIANT OpenMeansFailuresInARow
INVARIANT RoutedForOwnTenant
INVARIANT PlannedForOwnTenantUnlessOvertaken
PROPERTY BreakerRecovers
