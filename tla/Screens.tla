------------------------------ MODULE Screens ------------------------------
(***************************************************************************)
(* The screens of the front end (web/src/pages) as data for Browser: what  *)
(* a screen reads (its calls of useApi), what can be done on it, which     *)
(* tables of the API that changes, and what the handler reads again.       *)
(*                                                                         *)
(* What is read and changed are the tables of the handlers (see Api); a    *)
(* form that creates or updates writes what one or the other does.  A      *)
(* reading is keyed when its path depends on what is selected on the       *)
(* screen, and guarded when the answer to an earlier selection is thrown   *)
(* away.                                                                   *)
(*                                                                         *)
(* The kinds of operations:                                                *)
(*   form     a dialog with fields, mounted anew whenever it opens;        *)
(*   confirm  ConfirmDialog, which stays mounted while it is closed;       *)
(*   direct   a button that sends the request at once;                     *)
(*   ask      a button that first asks for the reason (useReason);         *)
(*   import   a dialog that sends a dry run, shows its counts, and then    *)
(*            sends the same request for good.                             *)
(* and what is special about some:                                         *)
(*   anyone   not only for FP&A;        retries  also reads again on failure; *)
(*   asks     the API may answer that a reason is needed (withReason);     *)
(*   inside   the request reads again itself, before the dialog is done;   *)
(*   answers  the answer replaces what was read (setData), nothing is read; *)
(*   stays    the dialog shows the result instead of closing;              *)
(*   picks    the screen selects what was made;   leaves  it goes elsewhere; *)
(*   auto     the dry run is sent when the dialog opens;                   *)
(*   drifts   a default of the dialog comes from a reading of its own.     *)
(*                                                                         *)
(* Left out: fields and their validation, layout, sorting, downloads.      *)
(***************************************************************************)
EXTENDS Api, TLC

Reads(tables) == [tables |-> tables, keyed |-> FALSE, guarded |-> FALSE]
Keyed(tables) == [Reads(tables) EXCEPT !.keyed = TRUE]
Guarded(tables) == [Keyed(tables) EXCEPT !.guarded = TRUE]

Op(kind, writes, reloads, flags) ==
  [kind |-> kind, writes |-> writes, reloads |-> reloads, flags |-> flags]
Form(writes, reloads) == Op("form", writes, reloads, {})
Direct(writes, reloads) == Op("direct", writes, reloads, {})
DeleteRow(writes, reloads) == Op("confirm", writes, reloads, {})
With(op, flags) == [op EXCEPT !.flags = @ \union flags]

Screen(queries, ops) == [fpa |-> FALSE, queries |-> queries, ops |-> ops]
FpaScreen(queries, ops) == [fpa |-> TRUE, queries |-> queries, ops |-> ops]
NoOps == <<>>

-----------------------------------------------------------------------------
\* CSV files: the button with its dialog, and the dialog of the master data.
CsvImportDialog(writes, reloads) == Op("import", writes, reloads, {"stays"})
CsvActions(writes, reloads) == CsvImportDialog(writes, reloads)

\* The values of a plan: a file without a change cannot be imported, and the
\* screens that offer the import read nothing again.
PlanValuesImportDialog == Op("import", scenario_importPlanValues, {}, {"stays"})
PlanValuesCsvCard == PlanValuesImportDialog

\* The star shows what was clicked at once; the list is read again only while
\* it is filtered by the stars, so no list counts as reading them.
WatchButton == With(Direct(activity_setWatch, {}), {"anyone"})
Starless(tables) == tables \ {"activity_watches"}

\* Names and choices that a screen reads once; of partners, not the numbers of
\* their lines.
MasterReadings(names) ==
  LET readings == [scenarios |-> scenario_list, units |-> master_listUnits,
                   segments |-> tree_list("segments"),
                   organizations |-> tree_list("organizations"),
                   subjects |-> master_listSubjects,
                   partners |-> master_listPartners \ {"activity_lines"},
                   activities |-> Starless(activity_list), users |-> master_listUsers,
                   levels |-> master_listConfidenceLevels, accounts |-> actual_listAccounts]
  IN  [name \in names |-> Reads(readings[name])]

-----------------------------------------------------------------------------
\* Master data.

TreeNodeDialog(table, reloads) == Form(tree_create(table) \union tree_update(table), reloads)
TreeMasterPage(table) ==
  Screen([nodes |-> Reads(tree_list(table))],
         [editing |-> TreeNodeDialog(table, {"nodes"}),
          deleting |-> DeleteRow(tree_delete(table), {"nodes"}),
          csv |-> CsvActions(tree_importCSV(table), {"nodes"})])

UnitDialog(reloads) == Form(master_createUnit \union master_updateUnit, reloads)
MergeDialog(reloads) == Form(orgchange_mergeUnit, reloads)
\* showArchived selects the path of the units.
UnitsQueries ==
  [units |-> Keyed(master_listUnits)] @@ MasterReadings({"segments", "organizations", "users"})
UnitsPage ==
  Screen(UnitsQueries,
         [setArchived |-> Direct(orgchange_setArchived, {"units"}),
          merging |-> MergeDialog({"units"}),
          editing |-> UnitDialog({"units"}),
          deleting |-> DeleteRow(master_deleteUnit, {"units"}),
          csv |-> CsvActions(master_importUnits, {"units"})])

SubjectDialog(reloads) == Form(master_createSubject \union master_updateSubject, reloads)
SubjectsQueries == MasterReadings({"subjects"})
SubjectsPage ==
  Screen(SubjectsQueries,
         [editing |-> SubjectDialog({"subjects"}),
          deleting |-> DeleteRow(master_deleteSubject, {"subjects"}),
          csv |-> CsvActions(master_importSubjects, {"subjects"})])

PartnerDialog(reloads) == Form(master_createPartner \union master_updatePartner, reloads)
\* The lines of one partner; another partner mounts another card.
PartnerLinesCard == Guarded(master_partnerLines)
PartnersQueries == [partners |-> Reads(master_listPartners), lines |-> PartnerLinesCard]
PartnersPage ==
  Screen(PartnersQueries,
         [editing |-> PartnerDialog({"partners"}),
          deleting |-> DeleteRow(master_deletePartner, {"partners"}),
          csv |-> CsvActions(master_importPartners, {"partners"})])

AccountDialog(reloads) == Form(actual_createAccount \union actual_updateAccount, reloads)
GLAccountsQueries == MasterReadings({"accounts", "subjects"})
GLAccountsPage ==
  Screen(GLAccountsQueries,
         [editing |-> AccountDialog({"accounts"}),
          deleting |-> DeleteRow(actual_deleteAccount, {"accounts"}),
          csv |-> CsvActions(actual_importAccounts, {"accounts"})])

RuleDialog(reloads) == Form(actual_createRule \union actual_updateRule, reloads)
AllocationRulesQueries ==
  [rules |-> Reads(actual_listRules)] @@ MasterReadings({"accounts", "activities"})
AllocationRulesPage ==
  Screen(AllocationRulesQueries,
         [editing |-> RuleDialog({"rules"}),
          deleting |-> DeleteRow(actual_deleteRule, {"rules"}),
          csv |-> CsvActions(actual_importRules, {"rules"})])

LevelDialog(reloads) ==
  Form(master_createConfidenceLevel \union master_updateConfidenceLevel, reloads)
ConfidenceLevelsPage ==
  Screen(MasterReadings({"levels"}),
         [editing |-> LevelDialog({"levels"}),
          deleting |-> DeleteRow(master_deleteConfidenceLevel, {"levels"})])

\* Deactivating is two requests, and the first may succeed alone: a request
\* whose change is made and that is answered with an error all the same.
UserDialog(reloads) ==
  Form(master_createUser \union master_updateUser \union orgchange_deactivate, reloads)
\* The list says who has no password yet, but setting one reads nothing again.
PasswordDialog == With(Form(master_resetPassword, {}), {"stays"})
UsersPage ==
  Screen(MasterReadings({"users"}),
         [editing |-> UserDialog({"users"}),
          password |-> PasswordDialog,
          csv |-> CsvActions(master_importUsers, {"users"})])

-----------------------------------------------------------------------------
\* The versions, the actuals and the changes of the organization: FP&A only.

CreateScenarioDialog(reloads) == With(Form(scenario_create, reloads), {"picks"})
ScenarioSettingsDialog(reloads) == Form(scenario_update, reloads)

\* The last month of actuals is the default of the month to start from.
CycleDialog(reloads) ==
  Op("import", scenario_startMonthly \union scenario_startFiscalYear, reloads,
     {"picks", "drifts"})
ActualsImportDialog(reloads) == Op("import", actual_importActuals, reloads, {"stays"})
RefreshActualsDialog(reloads) ==
  Op("import", actual_refreshActuals, reloads, {"stays", "auto"})

\* Everything is read again after everything; so is the active version of the
\* bar, which is read like the versions.
ScenarioAdminQueries ==
  [scenarios |-> Reads(scenario_list), months |-> Keyed(actual_actualMonths),
   drift |-> Reads(actual_listDrift), closings |-> Reads(actual_listClosings)]
ScenarioAdminActions(refresh) ==
  LET run(kind, writes) == Op(kind, writes, refresh, {})
  IN  [activate |-> run("direct", scenario_activate),
       lock |-> run("direct", scenario_setLocked),
       unlock |-> run("ask", scenario_setLocked),
       closeYear |-> run("ask", actual_closeYear),
       reopenYear |-> run("ask", actual_reopenYear)]
ScenarioAdminPage ==
  LET refresh == DOMAIN ScenarioAdminQueries
  IN  FpaScreen(ScenarioAdminQueries,
        [cycle |-> CycleDialog(refresh),
         creating |-> CreateScenarioDialog(refresh),
         importing |-> ActualsImportDialog(refresh),
         refreshing |-> RefreshActualsDialog(refresh),
         editing |-> ScenarioSettingsDialog(refresh)] @@ ScenarioAdminActions(refresh))

\* The activity that the versions are shown for comes from the address.
ScenarioListPage ==
  Screen([scenarios |-> Reads(scenario_list), activity |-> Keyed(activity_get)], NoOps)

\* Three tabs; another version mounts another screen.
ScenarioDetailPage ==
  Screen([scenario |-> Reads(scenario_get)] @@ MasterReadings({"activities", "units"}),
         [csv |-> PlanValuesCsvCard])

\* The form takes over what the API answers; the test leaves no record.
SettingsForm == With(Form(notify_putSettings, {}), {"answers"})
NotificationSettingsPage ==
  FpaScreen([settings |-> Reads(notify_getSettings), runs |-> Reads(notify_listRuns)],
            [form |-> SettingsForm, test |-> Direct(notify_testSlack, {})])

AssignDialog(reloads) == Form(actual_assignUnallocated, reloads)
ReallocateDialog(reloads) == Op("import", actual_reallocate, reloads, {"stays"})
ActualsQueries ==
  [unallocated |-> Keyed(actual_listUnallocated), months |-> Keyed(actual_actualMonths),
   closings |-> Reads(actual_listClosings)] @@ MasterReadings({"activities"})
ActualsView ==
  LET refresh == {"unallocated", "months"}
  IN  FpaScreen(ActualsQueries,
                [importing |-> ActualsImportDialog(refresh),
                 assigning |-> AssignDialog(refresh),
                 reallocating |-> ReallocateDialog(refresh)])

\* The items are collected in the dialog and sent with the plan.
PlanDialog(reloads) == Form(orgchange_createPlan \union orgchange_updatePlan, reloads)
OrgChangesQueries ==
  [plans |-> Reads(orgchange_listPlans)]
  @@ MasterReadings({"activities", "units", "segments", "organizations", "users"})
OrgChangesView ==
  LET refresh == {"plans", "activities", "units"}
      run(kind, writes) == Op(kind, writes, refresh, {"retries"})
  IN  FpaScreen(OrgChangesQueries,
                [apply |-> run("direct", orgchange_applyNow),
                 cancel |-> run("direct", orgchange_cancelPlan),
                 delete |-> run("ask", orgchange_deletePlan),
                 editing |-> PlanDialog(refresh)])

-----------------------------------------------------------------------------
\* Activities.

\* Creating goes on to the new activity; changing may need a reason.
createActivity == With(Form(activity_create, {}), {"anyone", "leaves"})
ActivityFormDialog(writes, reloads) == With(Form(writes, reloads), {"anyone", "asks"})

ActivityListPage ==
  Screen([activities |-> Keyed(Starless(activity_search))]
         @@ MasterReadings({"levels", "units", "users"}),
         [creating |-> createActivity, watch |-> WatchButton,
          csv |-> CsvActions(activity_importCSV, {"activities"})])

MilestoneDialog(reloads) ==
  With(Form(activity_createMilestone \union activity_updateMilestone, reloads),
       {"anyone", "asks"})
DriverDialog(reloads) ==
  With(Form(activity_createDriver \union activity_updateDriver, reloads), {"anyone"})
LineDialog(reloads) ==
  With(Form(activity_createLine \union activity_updateLine, reloads), {"anyone"})
ExternalCodesCard(reloads) ==
  [add |-> With(Direct(activity_createExternalCode, reloads), {"anyone"}),
   removing |-> With(DeleteRow(activity_deleteExternalCode, reloads), {"anyone"})]
\* The deletions ask, delete and read in one go.
AskedDeletion(writes, reloads) == Op("ask", writes, reloads, {"anyone", "inside"})

\* Above all tabs, and on the tab with the overview.
ActivityActions(reload) ==
  [watch |-> WatchButton, priority |-> Direct(activity_setPriority, reload),
   milestone |-> MilestoneDialog(reload),
   deleteMilestone |-> AskedDeletion(activity_deleteMilestone, reload)]
\* On the tab with the settings.
ActivitySettings(reload) ==
  [editing |-> ActivityFormDialog(activity_update, reload),
   driver |-> DriverDialog(reload), line |-> LineDialog(reload),
   deletingDriver |-> With(DeleteRow(activity_deleteDriver, reload), {"anyone"}),
   deleteLine |-> AskedDeletion(activity_deleteLine, reload),
   deleteActivity |-> With(AskedDeletion(activity_delete, reload), {"leaves"})]
  @@ ExternalCodesCard(reload)
\* reload reads the activity again, and with refreshKey the numbers of the
\* grids (see ValuesEditor).  A late error of any reading takes the place of
\* the whole screen.
ActivityDetailPage ==
  Screen([activity |-> Reads(Starless(activity_get))]
         @@ MasterReadings({"scenarios", "units", "users", "subjects", "partners", "levels"}),
         ActivityActions({"activity"}) @@ ActivitySettings({"activity"}))

ActualEntriesCard == Keyed(actual_activityEntries)
\* Two versions of the numbers, chosen on the card.
ActivityPlCard == Keyed(scenario_loadAmounts)
\* The cards of the tab with the overview; another tab unmounts them.
ActivityOverview ==
  Screen([entries |-> ActualEntriesCard, numbers |-> ActivityPlCard], ActivityActions({}))

\* Posting, changing and deleting a comment: the answer is the whole thread.
CommentThread ==
  LET writes == scenario_postComment \union scenario_putComment \union scenario_deleteComment
  IN  Screen([comments |-> Reads(scenario_respondComments)],
             [run |-> With(Form(writes, {}), {"anyone", "answers"})])

NarrativeForm == With(Form(scenario_putNarrative, {}), {"answers"})
ScenarioNarrative ==
  Screen([narrative |-> Reads(scenario_getNarrative)], [editing |-> NarrativeForm])

-----------------------------------------------------------------------------
\* Home, reports and the history.

\* The milestones of the activities that are listed.
MilestonesCard == Keyed(scenario_milestones)
\* The version (by its key), then the scope, select what is listed.
HomeView ==
  Screen([report |-> Keyed(Starless(scenario_activityStatuses)), milestones |-> MilestonesCard]
         @@ MasterReadings({"units", "users"}),
         [watch |-> WatchButton])

PendingOwners == Direct(notify_sendReminder, {"reminded"})
UpdateProgressCard ==
  [progress |-> Reads(scenario_activityStatuses), reminded |-> Reads(notify_listReminders)]
FpaWorkTab ==
  FpaScreen([months |-> Keyed(actual_actualMonths), unallocated |-> Keyed(actual_listUnallocated),
             drift |-> Reads(actual_listDrift), report |-> Keyed(scenario_activityStatuses)]
            @@ UpdateProgressCard @@ MasterReadings({"units", "users"}),
            [remind |-> PendingOwners])

\* The only list that throws away the answer to an earlier filter itself.
HistoryPage ==
  Screen([items |-> Guarded(history_list)]
         @@ MasterReadings({"scenarios", "activities", "users"}), NoOps)

\* The rows of the activities are kept per unit of the comparison.
useActivityRows == Guarded(report_comparison)
ReportView == Keyed(report_comparison)
ReportPage ==
  Screen([report |-> ReportView]
         @@ MasterReadings({"scenarios", "segments", "organizations", "units", "subjects",
                            "activities"}), NoOps)
RiskPage ==
  Screen([report |-> Keyed(report_risk)]
         @@ MasterReadings({"scenarios", "units", "segments", "subjects", "users"}), NoOps)
ActivityCharts ==
  Screen([report |-> Keyed(report_risk), milestones |-> Keyed(scenario_milestones)]
         @@ MasterReadings({"scenarios", "units", "segments"}), NoOps)
DashboardReadings ==
  Screen([report |-> Keyed(report_comparison), rows |-> useActivityRows,
          status |-> Keyed(scenario_activityStatuses), risk |-> Keyed(report_risk)]
         @@ MasterReadings({"scenarios", "units", "segments", "subjects", "activities", "users"}),
         NoOps)
ScenarioOverview ==
  Screen([report |-> Reads(report_comparison), rows |-> useActivityRows,
          risk |-> Reads(report_risk), status |-> Reads(scenario_activityStatuses)]
         @@ MasterReadings({"units", "segments", "subjects", "activities"}), NoOps)

-----------------------------------------------------------------------------
routes ==
  [home |-> HomeView, work |-> FpaWorkTab,
   activities |-> ActivityListPage, activity |-> ActivityDetailPage,
   activityOverview |-> ActivityOverview,
   comments |-> CommentThread, charts |-> ActivityCharts,
   scenarios |-> ScenarioListPage, scenario |-> ScenarioDetailPage,
   overview |-> ScenarioOverview, narrative |-> ScenarioNarrative,
   scenarioAdmin |-> ScenarioAdminPage, actuals |-> ActualsView,
   notifications |-> NotificationSettingsPage, orgChanges |-> OrgChangesView,
   dashboard |-> DashboardReadings, reports |-> ReportPage,
   history |-> HistoryPage, risks |-> RiskPage,
   segments |-> TreeMasterPage("segments"), organizations |-> TreeMasterPage("organizations"),
   units |-> UnitsPage, subjects |-> SubjectsPage,
   partners |-> PartnersPage, accounts |-> GLAccountsPage,
   rules |-> AllocationRulesPage, levels |-> ConfidenceLevelsPage,
   users |-> UsersPage]
=============================================================================
